---- MODULE Spec2Model ----
(***************************************************************************)
(* Manage My Queue (sis-thesqd/mmq): the client-side queue state and       *)
(* reconciliation logic of the MMQ component (MMQ.tsx), the TaskCard       *)
(* play/pause gate (TaskCard.tsx) and the usePolling hook (usePolling.ts). *)
(*                                                                         *)
(* The MMQ component is a React function component: a handler reads the    *)
(* state of the render it was created in.  A synchronous handler runs on   *)
(* the latest render; an async handler keeps the values it closed over     *)
(* across its await, so every request in flight carries its closure.       *)
(***************************************************************************)
EXTENDS Integers, Sequences, FiniteSets, Bags, TLC

\* ------------------------------------------------------------------ bounds
\* poll budget; 10 in the source (MMQ.tsx:766, TaskCard usePolling config)
maxPolls == 2
\* requests (loads, poll ticks, reorder and play/pause calls) that may be
\* awaiting their response at once
MaxInFlight == 2
\* setInterval schedules created by handleApplyReorder that may coexist
MaxIntervals == 2
\* tick callbacks of the TaskCard polls that may be awaiting onPoll at once
\* (a tick awaits longer than the 2000 ms interval when the load is slow)
MaxAwaitingTicks == 3

\* -------------------------------------------------------- program constants
\* `a.position ?? 999999`
MissingPositionKey == 999999
\* cap value that means "unlimited"
UnlimitedCap == 999
\* MMQ_DEFAULTS.minVisibleTasks, the fallback of `cap || MIN_VISIBLE_TASKS`
MIN_VISIBLE_TASKS == 10

\* ------------------------------------------------------------ data model
\* the position of a task that has none (position === undefined)
NoPos == -1

Task(id, active, status, position) ==
  [task_id |-> id, active |-> active, status |-> status, position |-> position]

\* String.prototype.toLowerCase on the status labels the model uses
ToLowerCase(s) ==
  CASE s = "ON HOLD" -> "on hold"
    [] s = "In Progress" -> "in progress"
    [] OTHER -> s

isTaskOnHold(task) == ToLowerCase(task.status) = "on hold"

\* tasks.filter(task => task.active && !isTaskOnHold(task)).length
countActiveWorkingTasks(tasks) ==
  Cardinality({i \in 1..Len(tasks) : tasks[i].active /\ ~isTaskOnHold(tasks[i])})

\* Array.prototype.findIndex on task_id, 0-based, -1 when absent
findIndex(tasks, id) ==
  IF \E i \in 1..Len(tasks) : tasks[i].task_id = id
  THEN (CHOOSE i \in 1..Len(tasks) :
          /\ tasks[i].task_id = id
          /\ \A j \in 1..(i - 1) : tasks[j].task_id # id) - 1
  ELSE -1

\* (a.position ?? 999999)
PositionKey(task) ==
  IF task.position = NoPos THEN MissingPositionKey ELSE task.position

RECURSIVE InsertByPosition(_, _)
\* insert t after every element whose key is <= its own (stable)
InsertByPosition(sorted, t) ==
  IF sorted = <<>> THEN <<t>>
  ELSE IF PositionKey(Head(sorted)) <= PositionKey(t)
       THEN <<Head(sorted)>> \o InsertByPosition(Tail(sorted), t)
       ELSE <<t>> \o sorted

RECURSIVE SortByPosition(_)
\* Array.prototype.sort((a, b) => key(a) - key(b)): a stable ascending sort
SortByPosition(tasks) ==
  IF tasks = <<>> THEN <<>>
  ELSE InsertByPosition(SortByPosition(SubSeq(tasks, 1, Len(tasks) - 1)),
                        tasks[Len(tasks)])

IsActiveTask(t) == t.active
IsHoldTask(t) == ~t.active

\* activeTasks useMemo: data?.tasks.filter(task => task.active) || []
activeTasksOf(d) == SelectSeq(d.tasks, IsActiveTask)

\* holdTasks useMemo: the inactive tasks sorted by position
holdTasksOf(d) == SortByPosition(SelectSeq(d.tasks, IsHoldTask))

\* arrayMove of @dnd-kit/sortable with 0-based from/to inside the array
arrayMove(array, from, to) ==
  LET without == SubSeq(array, 1, from) \o SubSeq(array, from + 2, Len(array))
  IN  SubSeq(without, 1, to) \o <<array[from + 1]>> \o
      SubSeq(without, to + 1, Len(without))

\* a renumbering that uses the 0-based index as the position
RenumberFromZero(tasks) ==
  [i \in 1..Len(tasks) |-> [tasks[i] EXCEPT !.position = i - 1]]

\* reorderedTasks.map((task, index) => ({...task, position: index + 1}))
Renumber(tasks) ==
  [i \in 1..Len(tasks) |-> [tasks[i] EXCEPT !.position = i]]

\* ---------------------------------------------------------- remote inputs
\* useState<TaskResponse | null>(null): the value of `data` before a load
NoData == [tasks |-> <<>>, cap |-> -1, active_tasks |-> -1]
NoError == "null"
\* no warning toast is raised
NoWarning == "null"

\* responses the queue-data endpoint can answer with (result.data).  Unranked
\* has a hold bucket whose positions are not 1..N (the endpoint answers
\* `queue_num || 0`, so positions can be 0, repeat and leave gaps) and two
\* working tasks that sit between the hold tasks in the list.  AtCap is a
\* queue at its cap with a working task, an active task on hold and one
\* queued task.
Unranked ==
  [tasks |-> << Task("D", TRUE, "In Progress", 0), Task("A", FALSE, "Queued", 5),
                Task("E", TRUE, "In Review", 0), Task("B", FALSE, "Queued", 0),
                Task("C", FALSE, "Queued", 0) >>,
   cap |-> 2, active_tasks |-> 2]
AtCap ==
  [tasks |-> << Task("A", TRUE, "In Progress", 0), Task("B", TRUE, "ON HOLD", 0),
                Task("C", FALSE, "Queued", 1) >>,
   cap |-> 1, active_tasks |-> 1]
Snapshots == {Unranked, AtCap}
\* an account whose cap is 0, with one active task on hold
ZeroCap ==
  [tasks |-> << Task("A", TRUE, "ON HOLD", 0) >>, cap |-> 0, active_tasks |-> 0]
CardSnapshots == Snapshots \cup {ZeroCap}

\* the tasks the handlers are invoked on
TaskIds == {"A", "B", "C"}
NoTask == "none"

\* messages of the failures fetchData throws
FetchErrors == {"Failed to fetch queue data", "No data received from API"}

\* ------------------------------------------------------------- apiClient
\* the default of options.retries: the fetch attempts one makeRequest makes
DefaultRetries == 3
\* the callers of apiClient, the verbs api.get/post/patch set, the urls, and
\* the options.retries a caller passes
Callers == {"c1", "c2"}
Methods == {"GET", "POST", "PATCH"}
Urls == {"/api/mmq-queue-data"}
RetryOptions == {1, DefaultRetries}

\* what a fetch() promise settles with: a Response (ok is status 200..299;
\* error is the error field of its JSON body, "" when it has none) or a
\* rejection (a TypeError whose message may contain 'fetch', or the
\* AbortError of the timeout controller)
Response(status, err) ==
  [kind |-> "Response", status |-> status, error |-> err, bodyUsed |-> FALSE]
Rejection(name, mentionsFetch) ==
  [kind |-> "Error", name |-> name, mentionsFetch |-> mentionsFetch]
Outcomes ==
  { Response(200, ""), Response(404, "Account not found"), Response(429, ""),
    Response(500, "Internal server error"),
    Rejection("TypeError", TRUE), Rejection("TypeError", FALSE),
    Rejection("AbortError", FALSE) }
Unsent == [kind |-> "unsent"]
Pending == [kind |-> "pending"]

\* the fetch() calls: the attempt-th fetch of a caller's makeRequest
FetchIds == Callers \X (1..DefaultRetries)
NoFetch == << >>

\* `${method}:${url}:${body}`; the requests modelled differ in method and url
generateRequestKey(method, url) == << method, url >>
RequestKeys == Methods \X Urls

\* function isRetriableError(error)
isRetriableError(e) ==
  \/ e.kind = "Error" /\ e.name = "TypeError" /\ e.mentionsFetch
  \/ e.kind = "Response" /\ (e.status >= 500 \/ e.status = 429)

ResponseOk(r) == r.status >= 200 /\ r.status <= 299

\* an apiClient call that was not made yet, and the APIResponse it resolves to
IdleCall == [state |-> "idle"]
APIResult(status, err) == [status |-> status, error |-> err]
NoAPIError == ""

\* --------------------------------------------------------- TimerProvider
\* let timeLeft = 5 * 60, and the 2000 ms of the refreshing state, in seconds
CountdownSeconds == 300
RefreshingSeconds == 2
\* the props MMQ can pass: activeTaskCount and cap
ActiveCounts == 0..2
Caps == {0, 1, 2, UnlimitedCap}
TimerProps == [activeTaskCount : ActiveCounts, cap : Caps]
NoProps == [mounted |-> FALSE]
NoCountdown == << >>
\* no setInterval is armed
NoInterval == [live |-> FALSE, timeLeft |-> 0, due |-> FALSE]

\* ------------------------------------------------- /api/mmq-reorder
\* the longest request body modelled
MaxBody == 2
\* JSON values of a request body: a missing property reads as undefined
Undefined == [kind |-> "undefined"]
JsNull == [kind |-> "null"]
Str(s) == [kind |-> "string", value |-> s]
Num(n) == [kind |-> "number", value |-> n]
TaskIdValues == {Undefined, Str(""), Str("A")}
PositionValues == {Undefined, JsNull, Num(0), Num(1)}
Entries ==
  {JsNull} \cup [kind : {"object"}, task_id : TaskIdValues, position : PositionValues]
ArrayBody(items) == [kind |-> "array", items |-> items]
NotAnArray == [kind |-> "object"]
Bodies ==
  {NotAnArray} \cup {ArrayBody(items) : items \in UNION {[1..n -> Entries] : n \in 0..MaxBody}}

\* what the remote reorder operation does with a forwarded request: it answers
\* (2xx with the tasks as an array or inside an object, or an error status with
\* a text body) or the fetch throws
RemoteAnswer(status, shape, text) ==
  [kind |-> "response", status |-> status, shape |-> shape, text |-> text]
RemoteOutcomes ==
  { RemoteAnswer(200, "array", ""), RemoteAnswer(200, "object", ""),
    RemoteAnswer(500, "text", "Workflow could not be started"),
    RemoteAnswer(404, "text", "The requested webhook is not registered"),
    [kind |-> "throws", message |-> "fetch failed"] }

\* the endpoint is handling no request
NoCall == [phase |-> "idle"]
NoDetails == ""

\* --------------------------------------------------------------- state
VARIABLES
  data,               \* useState<TaskResponse | null>: the held snapshot
  originalTasks,      \* useState<Task[]>: the rollback target
  hasPendingReorder,  \* useState(false): MutationPending
  error,              \* useState<string | null>
  loading,            \* useState(true)
  fetches,            \* fetchData calls awaiting their response (not poll ticks)
  reorderReqs,        \* handleApplyReorder calls awaiting the reorder response
  statusReqs,         \* handleStatusUpdate calls awaiting the play/pause response
  cardReqs,           \* TaskCard.handlePlayPauseConfirm calls awaiting (isPlayPauseLoading)
  intervals,          \* the setInterval schedules handleApplyReorder created
  hook,               \* per TaskCard: the usePolling refs and its live timers
  pollsAwaiting,      \* per TaskCard: tick callbacks awaiting onPoll
  torn,               \* the TaskCards that were unmounted
  ticksOfRun,         \* per TaskCard: ticks invoked since the last startPolling
  stopped,            \* per TaskCard: stopPolling ran since the last startPolling
  completions,        \* per usePolling instance: onComplete calls since the last startPolling
  reported,           \* per usePolling instance: onError calls since the last startPolling
  tprops,             \* TimerProvider: its props, or NoProps while it is not mounted
  countdown,          \* TimerProvider: useState<string | null>(null)
  timerRefreshing,    \* TimerProvider: useState(false), isRefreshing
  timer,              \* TimerProvider: the interval and timeLeft of the effect in force
  timeouts,           \* TimerProvider: the pending setTimeout(..., 2000) callbacks
  refreshesAtZero,    \* onRefresh calls since timeLeft was last set to 5 * 60
  reorderCall,        \* the request the /api/mmq-reorder endpoint is handling
  overrideAccount,    \* useState<number | null>(null)
  isOverrideInputVisible, \* useState(false)
  loadAccounts,       \* per account: the fetchData calls awaiting its queue
  shownAccount,       \* the account whose queue setData last stored
  apiCalls,           \* per caller: its apiClient call, up to the APIResponse
  netFetches,         \* the fetch() promises makeRequest created
  pendingRequests,    \* the request deduplication cache: key -> fetch promise
  ev                  \* the last handler that ran: what it was given, the
                      \* request it sent and the toast it raised (setWarningMessage,
                      \* setSuccessMessage, setShowWarningToast)

\* the state of the TaskCards' usePolling instances
hookVars == << hook, pollsAwaiting, torn, ticksOfRun, stopped >>

\* the state of TimerProvider
timerVars == << tprops, countdown, timerRefreshing, timer, timeouts, refreshesAtZero >>

\* the calls usePolling made to the callbacks of its options
callbackVars == << completions, reported >>

\* the state of the API client
apiVars == << apiCalls, netFetches, pendingRequests >>

\* the account override of MMQ and the accounts of its loads
accountVars == << overrideAccount, isOverrideInputVisible, loadAccounts, shownAccount >>

\* the state of the MMQ component and its cards
appVars == << data, originalTasks, hasPendingReorder, error, loading, fetches,
              reorderReqs, statusReqs, cardReqs, intervals, hook, pollsAwaiting,
              torn, ticksOfRun, stopped, completions, reported, tprops,
              countdown, timerRefreshing, timer, timeouts, refreshesAtZero,
              reorderCall, overrideAccount, isOverrideInputVisible,
              loadAccounts, shownAccount >>

vars == << data, originalTasks, hasPendingReorder, error, loading, fetches,
           reorderReqs, statusReqs, cardReqs, intervals, hook, pollsAwaiting,
           torn, ticksOfRun, stopped, completions, reported, tprops,
           countdown, timerRefreshing, timer, timeouts, refreshesAtZero,
           reorderCall, overrideAccount, isOverrideInputVisible, loadAccounts,
           shownAccount, apiCalls, netFetches, pendingRequests, ev >>

\* usePolling's refs after the first render (useRef(null), useRef(0)), and the
\* timers setInterval created for it that clearInterval has not removed
NoTimer == "null"
Timer == "timer"
NewHook == [intervalRef |-> NoTimer, pollCountRef |-> 0, liveTimers |-> 0]

\* a setInterval handle of handleApplyReorder: whether clearInterval was
\* called on it, its closure variable pollCount, and how many of its tick
\* callbacks are awaiting fetchData.  `intervals` is the bag of the handles
\* that can still run code.
NewInterval == [cleared |-> FALSE, pollCount |-> 0, ticks |-> 0]

\* the tick callbacks that are awaiting fetchData, over a set of interval kinds
RECURSIVE SumTicks(_)
SumTicks(kinds) ==
  IF kinds = {} THEN 0
  ELSE LET iv == CHOOSE x \in kinds : TRUE
       IN  iv.ticks * CopiesIn(iv, intervals) + SumTicks(kinds \ {iv})

\* the TaskCard tick callbacks that are awaiting onPoll, over a set of cards
RECURSIVE SumAwaiting(_)
SumAwaiting(cards) ==
  IF cards = {} THEN 0
  ELSE LET t == CHOOSE x \in cards : TRUE
       IN  pollsAwaiting[t] + SumAwaiting(cards \ {t})

\* the calls that are awaiting a response
InFlight ==
  fetches + Cardinality(reorderReqs) + Cardinality(statusReqs) + Cardinality(cardReqs)
  + SumTicks(BagToSet(intervals)) + SumAwaiting(TaskIds)

IdsOf(tasks) == {tasks[i].task_id : i \in 1..Len(tasks)}
TaskOf(tasks, id) == tasks[findIndex(tasks, id) + 1]

\* MMQ renders the queue (and so its handlers can be invoked) only past the
\* loading, error and !data guards
Rendered == ~loading /\ error = NoError /\ data # NoData

\* the accountNumber prop of MMQ, and what parseInt(overrideInput, 10) can give
AccountNumber == 101
OverrideInputs == {0, 202}
Accounts == {AccountNumber} \cup {n \in OverrideInputs : n > 0}

\* const accountToFetch = overrideAccount || accountNumber
AccountToFetch ==
  IF overrideAccount = JsNull \/ overrideAccount.value = 0
  THEN AccountNumber
  ELSE overrideAccount.value

\* `account-${accountNumber}` and accountNumber.toString(): the text before
\* the digits, and the number the digits spell
TemplateAccount(n) == [text |-> "account-", number |-> n]
NumberToString(n) == [text |-> "", number |-> n]

\* what MMQ's render returns: <Loading />, the "Error Loading Queue" page,
\* null, or the queue
Screen ==
  IF loading THEN "loading"
  ELSE IF error # NoError THEN "error"
  ELSE IF data = NoData THEN "null"
  ELSE "queue"

Init ==
  /\ data = NoData
  /\ originalTasks = <<>>
  /\ hasPendingReorder = FALSE
  /\ error = NoError
  /\ loading = TRUE
  /\ fetches = 1            \* useEffect(() => { fetchData() }, [fetchData])
  /\ reorderReqs = {}
  /\ statusReqs = {}
  /\ cardReqs = {}
  /\ intervals = EmptyBag
  /\ hook = [t \in TaskIds |-> NewHook]
  /\ pollsAwaiting = [t \in TaskIds |-> 0]
  /\ torn = {}
  /\ ticksOfRun = [t \in TaskIds |-> 0]
  /\ stopped = [t \in TaskIds |-> FALSE]
  /\ completions = [t \in TaskIds |-> 0]
  /\ reported = [t \in TaskIds |-> 0]
  /\ tprops = NoProps
  /\ countdown = NoCountdown
  /\ timerRefreshing = FALSE
  /\ timer = NoInterval
  /\ timeouts = {}
  /\ refreshesAtZero = 0
  /\ reorderCall = NoCall
  /\ overrideAccount = JsNull
  /\ isOverrideInputVisible = FALSE
  /\ loadAccounts = [a \in Accounts |-> IF a = AccountNumber THEN 1 ELSE 0]
  /\ shownAccount = JsNull
  /\ apiCalls = [c \in Callers |-> IdleCall]
  /\ netFetches = [id \in FetchIds |-> Unsent]
  /\ pendingRequests = [key \in RequestKeys |-> NoFetch]   \* new Map()
  /\ ev = [op |-> "mount"]

\* ------------------------------------------------------------- fetchData
\* a success branch that forgets setHasPendingReorder(false)
LoadSucceededKeepsPending(result) ==
  /\ data' = result
  /\ originalTasks' = result.tasks
  /\ UNCHANGED hasPendingReorder
  /\ error' = NoError
  /\ loading' = FALSE

\* a fenced success branch: the response of a load that resolves right after
\* another load's response is dropped
LoadSucceededFenced(result) ==
  IF ev.op = "loadOk"
  THEN UNCHANGED << data, originalTasks, hasPendingReorder, error, loading >>
  ELSE /\ data' = result
       /\ originalTasks' = result.tasks
       /\ hasPendingReorder' = FALSE
       /\ error' = NoError
       /\ loading' = FALSE

\* the state updates of fetchData's success branch
LoadSucceeded(result) ==
  /\ data' = result
  /\ originalTasks' = result.tasks
  /\ hasPendingReorder' = FALSE
  /\ error' = NoError
  /\ loading' = FALSE

\* a catch branch that also drops the staged-reorder flag
LoadFailedDropsPending(message) ==
  /\ error' = message
  /\ loading' = FALSE
  /\ hasPendingReorder' = FALSE
  /\ UNCHANGED << data, originalTasks >>

\* the state updates of fetchData's catch and finally
LoadFailed(message) ==
  /\ error' = message
  /\ loading' = FALSE
  /\ UNCHANGED << data, originalTasks, hasPendingReorder >>

\* fetchData is called (refresh from a TaskCard poll, the countdown timer,
\* the account override) and awaits the response
FetchData ==
  /\ InFlight < MaxInFlight
  /\ fetches' = fetches + 1
  /\ loadAccounts' = [loadAccounts EXCEPT ![AccountToFetch] = @ + 1]
  /\ UNCHANGED << overrideAccount, isOverrideInputVisible, shownAccount >>
  /\ UNCHANGED apiVars
  /\ UNCHANGED reorderCall
  /\ UNCHANGED timerVars
  /\ UNCHANGED callbackVars
  /\ ev' = [op |-> "fetchData"]
  /\ UNCHANGED << data, originalTasks, hasPendingReorder, error, loading,
                  reorderReqs, statusReqs, cardReqs, intervals >>
  /\ UNCHANGED hookVars

FetchResolveOk(result) ==
  /\ fetches > 0
  /\ fetches' = fetches - 1
  /\ LoadSucceeded(result)
  /\ \E a \in Accounts :
       /\ loadAccounts[a] > 0
       /\ loadAccounts' = [loadAccounts EXCEPT ![a] = @ - 1]
       /\ shownAccount' = Num(a)
  /\ UNCHANGED << overrideAccount, isOverrideInputVisible >>
  /\ UNCHANGED apiVars
  /\ UNCHANGED reorderCall
  /\ UNCHANGED timerVars
  /\ UNCHANGED callbackVars
  /\ ev' = [op |-> "loadOk", result |-> result, wasPending |-> hasPendingReorder,
            overtook |-> ev.op = "loadOk" /\ data # result]
  /\ UNCHANGED << reorderReqs, statusReqs, cardReqs, intervals >>
  /\ UNCHANGED hookVars

FetchResolveFail(message) ==
  /\ fetches > 0
  /\ fetches' = fetches - 1
  /\ LoadFailed(message)
  /\ \E a \in Accounts :
       /\ loadAccounts[a] > 0
       /\ loadAccounts' = [loadAccounts EXCEPT ![a] = @ - 1]
  /\ UNCHANGED << overrideAccount, isOverrideInputVisible, shownAccount >>
  /\ UNCHANGED apiVars
  /\ UNCHANGED reorderCall
  /\ UNCHANGED timerVars
  /\ UNCHANGED callbackVars
  /\ ev' = [op |-> "loadFail"]
  /\ UNCHANGED << reorderReqs, statusReqs, cardReqs, intervals >>
  /\ UNCHANGED hookVars

\* -------------------------------------------------------- handleDragEnd
\* a merge that renumbers the whole list instead of the hold bucket
ReorderedTasksRenumbersAll(d, oldIndex, newIndex) ==
  Renumber(activeTasksOf(d) \o arrayMove(holdTasksOf(d), oldIndex, newIndex))

\* the task list handleDragEnd stores for a drag of the hold task at index
\* oldIndex onto the one at newIndex (0-based)
ReorderedTasks(d, oldIndex, newIndex) ==
  activeTasksOf(d) \o Renumber(arrayMove(holdTasksOf(d), oldIndex, newIndex))

\* early returns that let a task be dropped onto itself
dragAcceptedOntoItself(hold, activeId, overId) ==
  /\ overId # NoTask
  /\ findIndex(hold, activeId) # -1
  /\ findIndex(hold, overId) # -1

\* the early returns of handleDragEnd: the drag is taken only if there is a
\* drop target, it is another task, and both tasks are found in holdTasks
dragAccepted(hold, activeId, overId) ==
  /\ overId # NoTask
  /\ activeId # overId
  /\ findIndex(hold, activeId) # -1
  /\ findIndex(hold, overId) # -1

\* a handleDragEnd that submits the new order as soon as the drag is accepted
HandleDragEndAutoApplies(activeId, overId) ==
  /\ Rendered
  /\ LET oldIndex == findIndex(holdTasksOf(data), activeId)
         newIndex == findIndex(holdTasksOf(data), overId)
         accepted == dragAccepted(holdTasksOf(data), activeId, overId)
         staged == [data EXCEPT !.tasks = ReorderedTasks(data, oldIndex, newIndex)]
     IN /\ IF accepted
           THEN /\ data' = staged
                /\ hasPendingReorder' = TRUE
                /\ reorderReqs' = reorderReqs \cup
                     {[data |-> staged, originalTasks |-> originalTasks,
                       body |-> <<>>]}
           ELSE UNCHANGED << data, hasPendingReorder, reorderReqs >>
        /\ UNCHANGED apiVars
        /\ UNCHANGED accountVars
        /\ UNCHANGED reorderCall
        /\ UNCHANGED timerVars
        /\ UNCHANGED callbackVars
        /\ ev' = IF accepted
                 THEN [op |-> "dragEnd", accepted |-> TRUE,
                       activeId |-> activeId, overId |-> overId,
                       wasPending |-> hasPendingReorder,
                       before |-> IF hasPendingReorder THEN <<>> ELSE data.tasks]
                 ELSE [op |-> "dragEnd", accepted |-> FALSE]
  /\ UNCHANGED << originalTasks, error, loading, fetches, statusReqs,
                  cardReqs, intervals >>
  /\ UNCHANGED hookVars

\* handleDragEnd.  The event of an accepted drag keeps whether a change was
\* already staged and, for the drag that stages the first change, the task
\* list that was on display before it
HandleDragEnd(activeId, overId) ==
  /\ Rendered
  /\ LET oldIndex == findIndex(holdTasksOf(data), activeId)
         newIndex == findIndex(holdTasksOf(data), overId)
         accepted == dragAccepted(holdTasksOf(data), activeId, overId)
     IN /\ IF accepted
           THEN /\ data' = [data EXCEPT !.tasks = ReorderedTasks(data, oldIndex, newIndex)]
                /\ hasPendingReorder' = TRUE
           ELSE UNCHANGED << data, hasPendingReorder >>
        /\ UNCHANGED apiVars
        /\ UNCHANGED accountVars
        /\ UNCHANGED reorderCall
        /\ UNCHANGED timerVars
        /\ UNCHANGED callbackVars
        /\ ev' = IF accepted
                 THEN [op |-> "dragEnd", accepted |-> TRUE,
                       activeId |-> activeId, overId |-> overId,
                       wasPending |-> hasPendingReorder,
                       before |-> IF hasPendingReorder THEN <<>> ELSE data.tasks]
                 ELSE [op |-> "dragEnd", accepted |-> FALSE]
  /\ UNCHANGED << originalTasks, error, loading, fetches, reorderReqs, statusReqs,
                  cardReqs, intervals >>
  /\ UNCHANGED hookVars

\* ---------------------------------------------------- handleApplyReorder
\* a payload built from every task of the list, the Active ones included
reorderPayloadAllTasks(d) ==
  LET all == SortByPosition(d.tasks)
  IN  [i \in 1..Len(all) |->
         [task_id |-> all[i].task_id,
          position |-> IF all[i].position = NoPos THEN 0 ELSE all[i].position,
          active |-> all[i].active,
          status |-> all[i].status]]

\* data.tasks.filter(!active).sort(by position).map(task => ({task_id,
\* position: task.position || 0, active, status}))
reorderPayload(d) ==
  LET hold == holdTasksOf(d)
  IN  [i \in 1..Len(hold) |->
         [task_id |-> hold[i].task_id,
          position |-> IF hold[i].position = NoPos THEN 0 ELSE hold[i].position,
          active |-> hold[i].active,
          status |-> hold[i].status]]

\* the Apply Changes button: the PATCH is sent and awaited; the closure keeps
\* the data and originalTasks of the render the handler belongs to
HandleApplyReorder ==
  /\ Rendered
  /\ hasPendingReorder
  /\ InFlight < MaxInFlight
  /\ BagCardinality(intervals) + Cardinality(reorderReqs) < MaxIntervals
  /\ reorderReqs' = reorderReqs \cup
       {[data |-> data, originalTasks |-> originalTasks, body |-> reorderPayload(data)]}
  /\ UNCHANGED apiVars
  /\ UNCHANGED accountVars
  /\ UNCHANGED reorderCall
  /\ UNCHANGED timerVars
  /\ UNCHANGED callbackVars
  /\ ev' = [op |-> "applyReorder"]
  /\ UNCHANGED << data, originalTasks, hasPendingReorder, error, loading, fetches,
                  statusReqs, cardReqs, intervals >>
  /\ UNCHANGED hookVars

\* a success branch that starts no poll
ApplyResolveOkNoPoll(req) ==
  /\ req \in reorderReqs
  /\ reorderReqs' = reorderReqs \ {req}
  /\ hasPendingReorder' = FALSE
  /\ UNCHANGED apiVars
  /\ UNCHANGED accountVars
  /\ UNCHANGED reorderCall
  /\ UNCHANGED timerVars
  /\ UNCHANGED callbackVars
  /\ ev' = [op |-> "applyOk", success |-> "Tasks reordered successfully"]
  /\ UNCHANGED << data, originalTasks, error, loading, fetches, statusReqs, cardReqs,
                  intervals >>
  /\ UNCHANGED hookVars

\* response.ok: toast, clear the flag, start a setInterval of its own
ApplyResolveOk(req) ==
  /\ req \in reorderReqs
  /\ reorderReqs' = reorderReqs \ {req}
  /\ hasPendingReorder' = FALSE
  /\ intervals' = intervals (+) SetToBag({NewInterval})
  /\ UNCHANGED apiVars
  /\ UNCHANGED accountVars
  /\ UNCHANGED reorderCall
  /\ UNCHANGED timerVars
  /\ UNCHANGED callbackVars
  /\ ev' = [op |-> "applyOk", success |-> "Tasks reordered successfully"]
  /\ UNCHANGED << data, originalTasks, error, loading, fetches, statusReqs, cardReqs >>
  /\ UNCHANGED hookVars

ReorderErrors == {"Failed to reorder tasks"}

\* !response.ok or a transport error: the catch branch
ApplyResolveFail(req, message) ==
  /\ req \in reorderReqs
  /\ reorderReqs' = reorderReqs \ {req}
  /\ data' = [req.data EXCEPT !.tasks = req.originalTasks]
  /\ hasPendingReorder' = FALSE
  /\ UNCHANGED apiVars
  /\ UNCHANGED accountVars
  /\ UNCHANGED reorderCall
  /\ UNCHANGED timerVars
  /\ UNCHANGED callbackVars
  /\ ev' = [op |-> "applyFail", warning |-> message]
  /\ UNCHANGED << originalTasks, error, loading, fetches, statusReqs, cardReqs,
                  intervals >>
  /\ UNCHANGED hookVars

\* a Cancel that clears the flag and keeps the staged list
HandleCancelReorderKeepsList ==
  /\ Rendered
  /\ hasPendingReorder
  /\ hasPendingReorder' = FALSE
  /\ UNCHANGED apiVars
  /\ UNCHANGED accountVars
  /\ UNCHANGED reorderCall
  /\ UNCHANGED timerVars
  /\ UNCHANGED callbackVars
  /\ ev' = [op |-> "cancelReorder"]
  /\ UNCHANGED << data, originalTasks, error, loading, fetches, reorderReqs,
                  statusReqs, cardReqs, intervals >>
  /\ UNCHANGED hookVars

\* the Cancel button
HandleCancelReorder ==
  /\ Rendered
  /\ hasPendingReorder
  /\ data' = [data EXCEPT !.tasks = originalTasks]
  /\ hasPendingReorder' = FALSE
  /\ UNCHANGED apiVars
  /\ UNCHANGED accountVars
  /\ UNCHANGED reorderCall
  /\ UNCHANGED timerVars
  /\ UNCHANGED callbackVars
  /\ ev' = [op |-> "cancelReorder"]
  /\ UNCHANGED << originalTasks, error, loading, fetches, reorderReqs, statusReqs,
                  cardReqs, intervals >>
  /\ UNCHANGED hookVars

\* ------------------------------------ the poll handleApplyReorder starts
\* the interval fires: pollCount++, fetchData is called and awaited
PollTick(iv) ==
  /\ BagIn(iv, intervals)
  /\ ~iv.cleared
  /\ InFlight < MaxInFlight
  /\ intervals' = (intervals (-) SetToBag({iv})) (+)
                  SetToBag({[iv EXCEPT !.pollCount = @ + 1, !.ticks = @ + 1]})
  /\ UNCHANGED apiVars
  /\ UNCHANGED accountVars
  /\ UNCHANGED reorderCall
  /\ UNCHANGED timerVars
  /\ UNCHANGED callbackVars
  /\ ev' = [op |-> "pollTick"]
  /\ UNCHANGED << data, originalTasks, hasPendingReorder, error, loading, fetches,
                  reorderReqs, statusReqs, cardReqs >>
  /\ UNCHANGED hookVars

\* after the await: if (pollCount >= maxPolls) clearInterval(pollInterval).
\* A cleared handle with no tick awaiting can run no more code and is dropped.
AfterTick(iv) ==
  LET after == [iv EXCEPT !.ticks = @ - 1,
                          !.cleared = @ \/ iv.pollCount >= maxPolls]
  IN  intervals' = (intervals (-) SetToBag({iv})) (+)
                   (IF after.cleared /\ after.ticks = 0
                    THEN EmptyBag ELSE SetToBag({after}))

PollTickResolveOk(iv, result) ==
  /\ BagIn(iv, intervals)
  /\ iv.ticks > 0
  /\ LoadSucceeded(result)
  /\ AfterTick(iv)
  /\ UNCHANGED apiVars
  /\ UNCHANGED accountVars
  /\ UNCHANGED reorderCall
  /\ UNCHANGED timerVars
  /\ UNCHANGED callbackVars
  /\ ev' = [op |-> "loadOk", result |-> result, wasPending |-> hasPendingReorder,
            overtook |-> ev.op = "loadOk" /\ data # result]
  /\ UNCHANGED << fetches, reorderReqs, statusReqs, cardReqs >>
  /\ UNCHANGED hookVars

PollTickResolveFail(iv, message) ==
  /\ BagIn(iv, intervals)
  /\ iv.ticks > 0
  /\ LoadFailed(message)
  /\ AfterTick(iv)
  /\ UNCHANGED apiVars
  /\ UNCHANGED accountVars
  /\ UNCHANGED reorderCall
  /\ UNCHANGED timerVars
  /\ UNCHANGED callbackVars
  /\ ev' = [op |-> "loadFail"]
  /\ UNCHANGED << fetches, reorderReqs, statusReqs, cardReqs >>
  /\ UNCHANGED hookVars

\* ---------------------------------------------------- handleStatusUpdate
\* what the play/pause endpoint answers when the remote accepts the request
AcceptedResponse(action) ==
  IF action = "play" THEN [active |-> TRUE, status |-> "In Progress"]
                     ELSE [active |-> TRUE, status |-> "ON HOLD"]

\* the request handleStatusUpdate builds for (taskId, active), with the data
\* and the fetchData of the render it was called in
StatusRequest(d, taskId, active) ==
  [data |-> d,
   accountToFetch |-> AccountToFetch,
   view_id |-> TemplateAccount(AccountNumber),
   task_id |-> taskId,
   action |-> IF active THEN "play" ELSE "pause",
   position |-> IF TaskOf(d.tasks, taskId).active
                THEN findIndex(activeTasksOf(d), taskId) + 1
                ELSE findIndex(holdTasksOf(d), taskId) + 1]

\* MMQ.handleStatusUpdate(taskId, status, active), up to its await fetch(...)
HandleStatusUpdate(taskId, active) ==
  /\ Rendered
  /\ taskId \in IdsOf(activeTasksOf(data))
  /\ InFlight < MaxInFlight
  /\ statusReqs' = statusReqs \cup {StatusRequest(data, taskId, active)}
  /\ UNCHANGED apiVars
  /\ UNCHANGED accountVars
  /\ UNCHANGED reorderCall
  /\ UNCHANGED timerVars
  /\ UNCHANGED callbackVars
  /\ ev' = [op |-> "statusUpdate", task_id |-> taskId,
            action |-> IF active THEN "play" ELSE "pause", warned |-> FALSE]
  /\ UNCHANGED << data, originalTasks, hasPendingReorder, error, loading, fetches,
                  reorderReqs, cardReqs, intervals >>
  /\ UNCHANGED hookVars

\* data.tasks.map(t => t.task_id === taskId ? {...t, active, status} : t)
PatchTask(tasks, taskId, result) ==
  [i \in 1..Len(tasks) |->
     IF tasks[i].task_id = taskId
     THEN [tasks[i] EXCEPT !.active = result.active, !.status = result.status]
     ELSE tasks[i]]

\* the data handleStatusUpdate stores on success
PatchedData(d, taskId, result) ==
  LET updatedTasks == PatchTask(d.tasks, taskId, result)
  IN  [d EXCEPT !.tasks = updatedTasks,
                !.active_tasks = Len(SelectSeq(updatedTasks, IsActiveTask))]

\* response.ok: patch the closure's data, toast, then await fetchData()
StatusResolveOk(req) ==
  /\ req \in statusReqs
  /\ statusReqs' = statusReqs \ {req}
  /\ data' = PatchedData(req.data, req.task_id, AcceptedResponse(req.action))
  /\ fetches' = fetches + 1
  /\ loadAccounts' = [loadAccounts EXCEPT ![req.accountToFetch] = @ + 1]
  /\ UNCHANGED << overrideAccount, isOverrideInputVisible, shownAccount >>
  /\ UNCHANGED apiVars
  /\ UNCHANGED reorderCall
  /\ UNCHANGED timerVars
  /\ UNCHANGED callbackVars
  /\ ev' = [op |-> "statusOk", task_id |-> req.task_id, action |-> req.action,
            success |-> IF req.action = "play" THEN "Task started successfully"
                                               ELSE "Task paused successfully"]
  /\ UNCHANGED << originalTasks, hasPendingReorder, error, loading, reorderReqs,
                  cardReqs, intervals >>
  /\ UNCHANGED hookVars

StatusErrors == {"Failed to update task status"}

\* !response.ok or a transport error: the catch branch, a warning only
StatusResolveFail(req, message) ==
  /\ req \in statusReqs
  /\ statusReqs' = statusReqs \ {req}
  /\ UNCHANGED apiVars
  /\ UNCHANGED accountVars
  /\ UNCHANGED reorderCall
  /\ UNCHANGED timerVars
  /\ UNCHANGED callbackVars
  /\ ev' = [op |-> "statusFail", task_id |-> req.task_id, warning |-> message]
  /\ UNCHANGED << data, originalTasks, hasPendingReorder, error, loading, fetches,
                  reorderReqs, cardReqs, intervals >>
  /\ UNCHANGED hookVars

\* ------------------------------------------------------------ usePolling
\* a stopPolling that resets the counter and the ref but leaves the timer armed
stopPollingKeepsTimer(h) ==
  [h EXCEPT !.intervalRef = NoTimer, !.pollCountRef = 0]

\* stopPolling: if (intervalRef.current) { clearInterval(...); intervalRef.current
\* = null }  pollCountRef.current = 0
stopPolling(h) ==
  IF h.intervalRef # NoTimer
  THEN [intervalRef |-> NoTimer, pollCountRef |-> 0, liveTimers |-> h.liveTimers - 1]
  ELSE [h EXCEPT !.pollCountRef = 0]

\* startPolling: stopPolling(); pollCountRef.current = 0; intervalRef.current =
\* setInterval(tick, interval)
startPolling(h) ==
  LET s == stopPolling(h)
  IN  [intervalRef |-> Timer, pollCountRef |-> 0, liveTimers |-> s.liveTimers + 1]

\* the body of the component teardown: `useCallback(() => () => stopPolling(),
\* [stopPolling])` registers no effect, so nothing runs when the card unmounts
cleanupOnUnmount(h) == h

\* --------------------------------------------------- TaskCard play/pause
\* cap || MIN_VISIBLE_TASKS
CapOrDefault(cap) == IF cap = 0 THEN MIN_VISIBLE_TASKS ELSE cap

\* TaskCard.isPlayDisabled, with the props TaskGroup passes the card
isPlayDisabled(task, tasks, cap) ==
  /\ task.active
  /\ isTaskOnHold(task)
  /\ countActiveWorkingTasks(tasks) >= CapOrDefault(cap)

isPlayPauseLoading(taskId) == \E r \in cardReqs : r.task_id = taskId

\* TaskCard.handlePlayPause of the card of an Active-group task (the only
\* cards that render the button), and handlePlayPauseConfirm up to its await
HandlePlayPause(taskId) ==
  /\ Rendered
  /\ taskId \in IdsOf(activeTasksOf(data))
  /\ taskId \notin torn
  /\ ~isPlayPauseLoading(taskId)
  /\ InFlight < MaxInFlight
  /\ LET task == TaskOf(data.tasks, taskId)
         disabled == isPlayDisabled(task, activeTasksOf(data), data.cap)
         action == IF isTaskOnHold(task) THEN "play" ELSE "pause"
     IN  /\ cardReqs' = IF disabled THEN cardReqs
                        ELSE cardReqs \cup
                          {[task_id |-> taskId, action |-> action,
                            position |-> findIndex(activeTasksOf(data), taskId) + 1,
                            view_id |-> NumberToString(AccountNumber)]}
         /\ UNCHANGED apiVars
         /\ UNCHANGED accountVars
         /\ UNCHANGED reorderCall
         /\ UNCHANGED timerVars
         /\ UNCHANGED callbackVars
         /\ ev' = [op |-> "playPause", task_id |-> taskId, action |-> action,
                   warned |-> disabled]
  /\ UNCHANGED << data, originalTasks, hasPendingReorder, error, loading, fetches,
                  reorderReqs, statusReqs, intervals >>
  /\ UNCHANGED hookVars

\* apiResponse.ok: the card's own display state changes, MMQ's data does not;
\* then startStatusPolling()
CardResolveOk(req) ==
  /\ req \in cardReqs
  /\ cardReqs' = cardReqs \ {req}
  /\ hook' = [hook EXCEPT ![req.task_id] = startPolling(@)]
  /\ ticksOfRun' = [ticksOfRun EXCEPT ![req.task_id] = 0]
  /\ stopped' = [stopped EXCEPT ![req.task_id] = FALSE]
  /\ UNCHANGED apiVars
  /\ UNCHANGED accountVars
  /\ UNCHANGED reorderCall
  /\ UNCHANGED timerVars
  /\ UNCHANGED callbackVars
  /\ ev' = [op |-> "cardOk", task_id |-> req.task_id, action |-> req.action]
  /\ UNCHANGED << data, originalTasks, hasPendingReorder, error, loading, fetches,
                  reorderReqs, statusReqs, intervals, pollsAwaiting, torn >>

\* !apiResponse.ok or a transport error: the catch calls logger.error and
\* raises no toast; finally clears isPlayPauseLoading
CardResolveFail(req) ==
  /\ req \in cardReqs
  /\ cardReqs' = cardReqs \ {req}
  /\ UNCHANGED apiVars
  /\ UNCHANGED accountVars
  /\ UNCHANGED reorderCall
  /\ UNCHANGED timerVars
  /\ UNCHANGED callbackVars
  /\ ev' = [op |-> "cardFail", task_id |-> req.task_id, action |-> req.action,
            warning |-> NoWarning]
  /\ UNCHANGED << data, originalTasks, hasPendingReorder, error, loading, fetches,
                  reorderReqs, statusReqs, intervals >>
  /\ UNCHANGED hookVars

\* a live timer of the card fires: pollCountRef.current++, then onPoll()
\* (onRefresh, which is MMQ.fetchData) is called and awaited
CardPollTick(taskId) ==
  /\ hook[taskId].liveTimers > 0
  /\ SumAwaiting(TaskIds) < MaxAwaitingTicks
  /\ hook' = [hook EXCEPT ![taskId].pollCountRef = @ + 1]
  /\ pollsAwaiting' = [pollsAwaiting EXCEPT ![taskId] = @ + 1]
  /\ ticksOfRun' = [ticksOfRun EXCEPT ![taskId] = @ + 1]
  /\ UNCHANGED apiVars
  /\ UNCHANGED accountVars
  /\ UNCHANGED reorderCall
  /\ UNCHANGED timerVars
  /\ UNCHANGED callbackVars
  /\ ev' = [op |-> "cardTick", task_id |-> taskId, torn |-> taskId \in torn]
  /\ UNCHANGED << data, originalTasks, hasPendingReorder, error, loading, fetches,
                  reorderReqs, statusReqs, cardReqs, intervals, torn, stopped >>

\* after the await: if (pollCountRef.current >= maxPolls) { stopPolling();
\* onComplete?.() }  (TaskCard passes no onComplete and no onError)
AfterCardTick(taskId) ==
  LET done == hook[taskId].pollCountRef >= maxPolls
  IN  /\ pollsAwaiting' = [pollsAwaiting EXCEPT ![taskId] = @ - 1]
      /\ hook' = [hook EXCEPT ![taskId] = IF done THEN stopPolling(@) ELSE @]
      /\ stopped' = [stopped EXCEPT ![taskId] = @ \/ done]
      /\ UNCHANGED << torn, ticksOfRun >>

\* fetchData catches its own failures, so onPoll resolves either way
CardPollResolveOk(taskId, result) ==
  /\ pollsAwaiting[taskId] > 0
  /\ LoadSucceeded(result)
  /\ AfterCardTick(taskId)
  /\ UNCHANGED apiVars
  /\ UNCHANGED accountVars
  /\ UNCHANGED reorderCall
  /\ UNCHANGED timerVars
  /\ UNCHANGED callbackVars
  /\ ev' = [op |-> "loadOk", result |-> result, wasPending |-> hasPendingReorder,
            overtook |-> ev.op = "loadOk" /\ data # result]
  /\ UNCHANGED << fetches, reorderReqs, statusReqs, cardReqs, intervals >>

CardPollResolveFail(taskId, message) ==
  /\ pollsAwaiting[taskId] > 0
  /\ LoadFailed(message)
  /\ AfterCardTick(taskId)
  /\ UNCHANGED apiVars
  /\ UNCHANGED accountVars
  /\ UNCHANGED reorderCall
  /\ UNCHANGED timerVars
  /\ UNCHANGED callbackVars
  /\ ev' = [op |-> "loadFail"]
  /\ UNCHANGED << fetches, reorderReqs, statusReqs, cardReqs, intervals >>

\* the card of an Active-group task is unmounted
CardUnmount(taskId) ==
  /\ Rendered
  /\ taskId \in IdsOf(activeTasksOf(data))
  /\ taskId \notin torn
  /\ torn' = torn \cup {taskId}
  /\ hook' = [hook EXCEPT ![taskId] = cleanupOnUnmount(@)]
  /\ UNCHANGED apiVars
  /\ UNCHANGED accountVars
  /\ UNCHANGED reorderCall
  /\ UNCHANGED timerVars
  /\ UNCHANGED callbackVars
  /\ ev' = [op |-> "cardUnmount", task_id |-> taskId]
  /\ UNCHANGED << data, originalTasks, hasPendingReorder, error, loading, fetches,
                  reorderReqs, statusReqs, cardReqs, intervals, pollsAwaiting,
                  ticksOfRun, stopped >>

\* ---------------------------------------------------------------- Next
Next ==
  \/ FetchData
  \/ \E result \in Snapshots : FetchResolveOk(result)
  \/ \E message \in FetchErrors : FetchResolveFail(message)
  \/ \E activeId \in TaskIds, overId \in TaskIds \cup {NoTask} :
       HandleDragEnd(activeId, overId)
  \/ HandleApplyReorder
  \/ \E req \in reorderReqs : ApplyResolveOk(req)
  \/ \E req \in reorderReqs, message \in ReorderErrors : ApplyResolveFail(req, message)
  \/ HandleCancelReorder
  \/ \E iv \in BagToSet(intervals) : PollTick(iv)
  \/ \E iv \in BagToSet(intervals), result \in Snapshots : PollTickResolveOk(iv, result)
  \/ \E iv \in BagToSet(intervals), message \in FetchErrors :
       PollTickResolveFail(iv, message)

Spec == Init /\ [][Next]_vars

\* MMQ's play/pause operation handleStatusUpdate, which MMQ hands to the
\* cards as onStatusUpdate, together with the loads
NextStatus ==
  \/ FetchData
  \/ \E result \in Snapshots : FetchResolveOk(result)
  \/ \E message \in FetchErrors : FetchResolveFail(message)
  \/ \E taskId \in TaskIds, active \in BOOLEAN : HandleStatusUpdate(taskId, active)
  \/ \E req \in statusReqs : StatusResolveOk(req)
  \/ \E req \in statusReqs, message \in StatusErrors : StatusResolveFail(req, message)

SpecStatus == Init /\ [][NextStatus]_vars

\* the TaskCards inside MMQ: loads, the play/pause button and the status poll
NextCard ==
  \/ FetchData
  \/ \E result \in CardSnapshots : FetchResolveOk(result)
  \/ \E message \in FetchErrors : FetchResolveFail(message)
  \/ \E taskId \in TaskIds : HandlePlayPause(taskId)
  \/ \E req \in cardReqs : CardResolveOk(req)
  \/ \E req \in cardReqs : CardResolveFail(req)
  \/ \E taskId \in TaskIds : CardPollTick(taskId)
  \/ \E taskId \in TaskIds, result \in CardSnapshots :
       CardPollResolveOk(taskId, result)
  \/ \E taskId \in TaskIds, message \in FetchErrors :
       CardPollResolveFail(taskId, message)
  \/ \E taskId \in TaskIds : CardUnmount(taskId)

SpecCard == Init /\ [][NextCard]_vars

\* --------------------------------------------------- the account override
\* the loads a handler that sets overrideAccount to `next` starts: its own
\* fetchData() call, which still fetches the account of the render it was
\* called in, and, when the state changed, the call of
\* useEffect(() => { fetchData() }, [fetchData]) after the re-render
OverrideLoads(next) ==
  [a \in Accounts |->
     (IF a = AccountToFetch THEN 1 ELSE 0)
     + (IF next # overrideAccount
           /\ a = (IF next = JsNull THEN AccountNumber ELSE next.value)
        THEN 1 ELSE 0)]

LoadsStarted(next) == IF next # overrideAccount THEN 2 ELSE 1

\* MMQ.handleAccountOverride, with accountNum = parseInt(overrideInput, 10)
HandleAccountOverride(accountNum) ==
  /\ Rendered
  /\ isOverrideInputVisible
  /\ IF accountNum <= 0
     THEN /\ UNCHANGED << accountVars, fetches >>
          /\ ev' = [op |-> "accountOverride", accountNum |-> accountNum,
                    warned |-> TRUE]
     ELSE /\ InFlight + LoadsStarted(Num(accountNum)) <= MaxInFlight
          /\ overrideAccount' = Num(accountNum)
          /\ isOverrideInputVisible' = FALSE
          /\ fetches' = fetches + LoadsStarted(Num(accountNum))
          /\ loadAccounts' = [a \in Accounts |->
                                loadAccounts[a] + OverrideLoads(Num(accountNum))[a]]
          /\ UNCHANGED shownAccount
          /\ ev' = [op |-> "accountOverride", accountNum |-> accountNum,
                    warned |-> FALSE]
  /\ UNCHANGED apiVars
  /\ UNCHANGED reorderCall
  /\ UNCHANGED timerVars
  /\ UNCHANGED callbackVars
  /\ UNCHANGED << data, originalTasks, hasPendingReorder, error, loading,
                  reorderReqs, statusReqs, cardReqs, intervals >>
  /\ UNCHANGED hookVars

\* MMQ.handleToggleAccountOverride: the "Override Account" button, and
\* Cancel or Escape while the input is shown
HandleToggleAccountOverride ==
  /\ Rendered
  /\ isOverrideInputVisible' = ~isOverrideInputVisible
  /\ IF isOverrideInputVisible
     THEN /\ InFlight + LoadsStarted(JsNull) <= MaxInFlight
          /\ overrideAccount' = JsNull
          /\ fetches' = fetches + LoadsStarted(JsNull)
          /\ loadAccounts' = [a \in Accounts |->
                                loadAccounts[a] + OverrideLoads(JsNull)[a]]
     ELSE UNCHANGED << overrideAccount, fetches, loadAccounts >>
  /\ UNCHANGED shownAccount
  /\ UNCHANGED apiVars
  /\ UNCHANGED reorderCall
  /\ UNCHANGED timerVars
  /\ UNCHANGED callbackVars
  /\ ev' = [op |-> "toggleOverride", cleared |-> isOverrideInputVisible]
  /\ UNCHANGED << data, originalTasks, hasPendingReorder, error, loading,
                  reorderReqs, statusReqs, cardReqs, intervals >>
  /\ UNCHANGED hookVars

\* MMQ with showAccountOverride: the loads, the override controls and the
\* two play/pause paths up to their responses
NextAccount ==
  \/ FetchData
  \/ \E result \in Snapshots : FetchResolveOk(result)
  \/ \E message \in FetchErrors : FetchResolveFail(message)
  \/ HandleToggleAccountOverride
  \/ \E accountNum \in OverrideInputs : HandleAccountOverride(accountNum)
  \/ \E taskId \in TaskIds, active \in BOOLEAN : HandleStatusUpdate(taskId, active)
  \/ \E req \in statusReqs : StatusResolveOk(req)
  \/ \E req \in statusReqs, message \in StatusErrors : StatusResolveFail(req, message)
  \/ \E taskId \in TaskIds : HandlePlayPause(taskId)
  \/ \E req \in cardReqs : CardResolveOk(req)
  \/ \E req \in cardReqs : CardResolveFail(req)

SpecAccount == Init /\ [][NextAccount]_vars

\* ------------------------------------- /api/mmq-queue-data and the buckets
\* the rows get_combined_account_data returns for the tasks of an account:
\* queue_num is NoPos when the row has none (null or undefined)
Row(id, active, status, queue_num) ==
  [task_id |-> id, active |-> active, status |-> status, queue_num |-> queue_num]
QueueNums == {NoPos, 0, 1, 2}
RowLists ==
  {<< Row("A", FALSE, "Queued", qa), Row("D", TRUE, "In Progress", NoPos),
      Row("B", FALSE, "Queued", qb), Row("C", FALSE, "Queued", qc) >> :
     qa \in QueueNums, qb \in QueueNums, qc \in QueueNums}

\* position: task.queue_num || 0
transformedTasks(rows) ==
  [i \in 1..Len(rows) |->
     Task(rows[i].task_id, rows[i].active, rows[i].status,
          IF rows[i].queue_num = NoPos \/ rows[i].queue_num = 0
          THEN 0 ELSE rows[i].queue_num)]

\* the `result` of the handler: the transformed tasks and the account's
\* statistics (cap 2, and the active rows as active_tasks)
QueueDataResult(rows) ==
  [tasks |-> transformedTasks(rows), cap |-> 2,
   active_tasks |-> Len(SelectSeq(rows, IsActiveTask))]

\* the endpoint answers 200 for the rows it read, and fetchData's success
\* branch stores result.data
QueueDataResolveOk(rows) ==
  /\ fetches > 0
  /\ fetches' = fetches - 1
  /\ LoadSucceeded(QueueDataResult(rows))
  /\ \E a \in Accounts :
       /\ loadAccounts[a] > 0
       /\ loadAccounts' = [loadAccounts EXCEPT ![a] = @ - 1]
       /\ shownAccount' = Num(a)
  /\ UNCHANGED << overrideAccount, isOverrideInputVisible >>
  /\ UNCHANGED apiVars
  /\ UNCHANGED reorderCall
  /\ UNCHANGED timerVars
  /\ UNCHANGED callbackVars
  /\ ev' = [op |-> "queueData", rows |-> rows, result |-> QueueDataResult(rows)]
  /\ UNCHANGED << reorderReqs, statusReqs, cardReqs, intervals >>
  /\ UNCHANGED hookVars

\* MMQ loading its queue from the queue-data endpoint
NextQueueData ==
  \/ FetchData
  \/ \E rows \in RowLists : QueueDataResolveOk(rows)
  \/ \E message \in FetchErrors : FetchResolveFail(message)

SpecQueueData == Init /\ [][NextQueueData]_vars

\* ------------------------------------------------- usePolling on its own
\* the components that hold a usePolling instance: A passes onError and
\* onComplete, B passes neither (as TaskCard does)
Pollers == {"A", "B"}
onErrorGiven(t) == t = "A"
onCompleteGiven(t) == t = "A"

\* a tick body that skips the maxPolls test when onPoll threw
TickBodyStopsOnError(t, threw) ==
  LET done == threw \/ hook[t].pollCountRef >= maxPolls
  IN  /\ pollsAwaiting' = [pollsAwaiting EXCEPT ![t] = @ - 1]
      /\ hook' = [hook EXCEPT ![t] = IF done THEN stopPolling(@) ELSE @]
      /\ stopped' = [stopped EXCEPT ![t] = @ \/ done]
      /\ completions' = [completions EXCEPT ![t] =
                           IF done /\ onCompleteGiven(t) THEN @ + 1 ELSE @]
      /\ reported' = [reported EXCEPT ![t] =
                        IF threw /\ onErrorGiven(t) THEN @ + 1 ELSE @]

\* a tick body that tests the ticks fired in the run, which stopPolling does
\* not reset, instead of pollCountRef
TickBodyCountsFiredTicks(t, threw) ==
  LET done == ticksOfRun[t] >= maxPolls
  IN  /\ pollsAwaiting' = [pollsAwaiting EXCEPT ![t] = @ - 1]
      /\ hook' = [hook EXCEPT ![t] = IF done THEN stopPolling(@) ELSE @]
      /\ stopped' = [stopped EXCEPT ![t] = @ \/ done]
      /\ completions' = [completions EXCEPT ![t] =
                           IF done /\ onCompleteGiven(t) THEN @ + 1 ELSE @]
      /\ reported' = [reported EXCEPT ![t] =
                        IF threw /\ onErrorGiven(t) THEN @ + 1 ELSE @]

\* the tick body after `await onPoll()`: the catch calls onError when it is
\* given; then if (pollCountRef.current >= maxPolls) { stopPolling();
\* onComplete?.() }
TickBody(t, threw) ==
  LET done == hook[t].pollCountRef >= maxPolls
  IN  /\ pollsAwaiting' = [pollsAwaiting EXCEPT ![t] = @ - 1]
      /\ hook' = [hook EXCEPT ![t] = IF done THEN stopPolling(@) ELSE @]
      /\ stopped' = [stopped EXCEPT ![t] = @ \/ done]
      /\ completions' = [completions EXCEPT ![t] =
                           IF done /\ onCompleteGiven(t) THEN @ + 1 ELSE @]
      /\ reported' = [reported EXCEPT ![t] =
                        IF threw /\ onErrorGiven(t) THEN @ + 1 ELSE @]

\* the component calls startPolling()
StartPollingCalled(t) ==
  /\ hook' = [hook EXCEPT ![t] = startPolling(@)]
  /\ ticksOfRun' = [ticksOfRun EXCEPT ![t] = 0]
  /\ stopped' = [stopped EXCEPT ![t] = FALSE]
  /\ completions' = [completions EXCEPT ![t] = 0]
  /\ reported' = [reported EXCEPT ![t] = 0]
  /\ UNCHANGED apiVars
  /\ UNCHANGED accountVars
  /\ UNCHANGED reorderCall
  /\ UNCHANGED timerVars
  /\ ev' = [op |-> "startPolling", task_id |-> t]
  /\ UNCHANGED << data, originalTasks, hasPendingReorder, error, loading, fetches,
                  reorderReqs, statusReqs, cardReqs, intervals, pollsAwaiting, torn >>

\* a live timer fires: pollCountRef.current++, then onPoll() is called and
\* awaited
IntervalFires(t) ==
  /\ hook[t].liveTimers > 0
  /\ SumAwaiting(TaskIds) < MaxAwaitingTicks
  /\ hook' = [hook EXCEPT ![t].pollCountRef = @ + 1]
  /\ pollsAwaiting' = [pollsAwaiting EXCEPT ![t] = @ + 1]
  /\ ticksOfRun' = [ticksOfRun EXCEPT ![t] = @ + 1]
  /\ UNCHANGED apiVars
  /\ UNCHANGED accountVars
  /\ UNCHANGED reorderCall
  /\ UNCHANGED timerVars
  /\ UNCHANGED callbackVars
  /\ ev' = [op |-> "tick", task_id |-> t]
  /\ UNCHANGED << data, originalTasks, hasPendingReorder, error, loading, fetches,
                  reorderReqs, statusReqs, cardReqs, intervals, torn, stopped >>

\* onPoll() returns or resolves
OnPollResolves(t) ==
  /\ pollsAwaiting[t] > 0
  /\ TickBody(t, FALSE)
  /\ UNCHANGED apiVars
  /\ UNCHANGED accountVars
  /\ UNCHANGED reorderCall
  /\ UNCHANGED timerVars
  /\ ev' = [op |-> "onPollResolves", task_id |-> t,
            counted |-> hook[t].pollCountRef]
  /\ UNCHANGED << data, originalTasks, hasPendingReorder, error, loading, fetches,
                  reorderReqs, statusReqs, cardReqs, intervals, torn, ticksOfRun >>

\* onPoll() throws or rejects
OnPollRejects(t) ==
  /\ pollsAwaiting[t] > 0
  /\ TickBody(t, TRUE)
  /\ UNCHANGED apiVars
  /\ UNCHANGED accountVars
  /\ UNCHANGED reorderCall
  /\ UNCHANGED timerVars
  /\ ev' = [op |-> "onPollRejects", task_id |-> t,
            counted |-> hook[t].pollCountRef]
  /\ UNCHANGED << data, originalTasks, hasPendingReorder, error, loading, fetches,
                  reorderReqs, statusReqs, cardReqs, intervals, torn, ticksOfRun >>

NextPolling ==
  \/ \E t \in Pollers : StartPollingCalled(t)
  \/ \E t \in Pollers : IntervalFires(t)
  \/ \E t \in Pollers : OnPollResolves(t)
  \/ \E t \in Pollers : OnPollRejects(t)

SpecPolling == Init /\ [][NextPolling]_vars

\* every call of onPoll eventually returns or throws
SpecPollingLive ==
  /\ Init
  /\ [][NextPolling]_vars
  /\ \A t \in Pollers : WF_vars(OnPollResolves(t) \/ OnPollRejects(t))

\* --------------------------------------------------------- TimerProvider
\* the effect's guard: cap === 999 || activeTaskCount >= cap
noSlots(p) == p.cap = UnlimitedCap \/ p.activeTaskCount >= p.cap

\* `${minutes}:${seconds.toString().padStart(2, '0')}`, as minutes and seconds
formatCountdown(timeLeft) == << timeLeft \div 60, timeLeft % 60 >>

\* an effect whose guard forgets the unlimited sentinel
runEffectIgnoresSentinel(p) ==
  /\ timeouts' = {[to EXCEPT !.current = FALSE] : to \in timeouts}
  /\ IF p.activeTaskCount >= p.cap
     THEN /\ countdown' = NoCountdown
          /\ timer' = NoInterval
          /\ UNCHANGED refreshesAtZero
     ELSE /\ timer' = [live |-> TRUE, timeLeft |-> CountdownSeconds, due |-> FALSE]
          /\ refreshesAtZero' = 0
          /\ UNCHANGED countdown

\* the cleanup of the effect in force (clearInterval(timer); its timeouts keep
\* running on the closed-over timeLeft) and the effect body for props p
runEffect(p) ==
  /\ timeouts' = {[to EXCEPT !.current = FALSE] : to \in timeouts}
  /\ IF noSlots(p)
     THEN /\ countdown' = NoCountdown
          /\ timer' = NoInterval
          /\ UNCHANGED refreshesAtZero
     ELSE /\ timer' = [live |-> TRUE, timeLeft |-> CountdownSeconds, due |-> FALSE]
          /\ refreshesAtZero' = 0
          /\ UNCHANGED countdown

\* MMQ renders TimerProvider for the first time, or with other props
TimerRender(p) ==
  /\ p # tprops
  /\ tprops' = p
  /\ runEffect(p)
  /\ UNCHANGED timerRefreshing
  /\ UNCHANGED apiVars
  /\ UNCHANGED accountVars
  /\ UNCHANGED reorderCall
  /\ UNCHANGED callbackVars
  /\ ev' = [op |-> "timerRender"]
  /\ UNCHANGED << data, originalTasks, hasPendingReorder, error, loading, fetches,
                  reorderReqs, statusReqs, cardReqs, intervals >>
  /\ UNCHANGED hookVars

\* one second passes: the armed interval becomes due and the pending timeouts
\* come a second closer
ClockAdvances ==
  /\ timer.live \/ timeouts # {}
  /\ ~timer.due
  /\ \A to \in timeouts : to.remaining > 0
  /\ timer' = [timer EXCEPT !.due = timer.live]
  /\ timeouts' = {[to EXCEPT !.remaining = @ - 1] : to \in timeouts}
  /\ UNCHANGED << tprops, countdown, timerRefreshing, refreshesAtZero >>
  /\ UNCHANGED apiVars
  /\ UNCHANGED accountVars
  /\ UNCHANGED reorderCall
  /\ UNCHANGED callbackVars
  /\ ev' = [op |-> "clockAdvances"]
  /\ UNCHANGED << data, originalTasks, hasPendingReorder, error, loading, fetches,
                  reorderReqs, statusReqs, cardReqs, intervals >>
  /\ UNCHANGED hookVars

\* the setInterval callback
TimerTick ==
  /\ timer.live
  /\ timer.due
  /\ IF timer.timeLeft <= 0
     THEN /\ timerRefreshing' = TRUE
          /\ refreshesAtZero' = refreshesAtZero + 1          \* onRefresh()
          /\ timeouts' = timeouts \cup
               {[remaining |-> RefreshingSeconds, current |-> TRUE]}
          /\ timer' = [timer EXCEPT !.due = FALSE]
          /\ UNCHANGED countdown
     ELSE /\ countdown' = formatCountdown(timer.timeLeft)
          /\ timer' = [timer EXCEPT !.due = FALSE, !.timeLeft = @ - 1]
          /\ UNCHANGED << timerRefreshing, refreshesAtZero, timeouts >>
  /\ UNCHANGED tprops
  /\ UNCHANGED apiVars
  /\ UNCHANGED accountVars
  /\ UNCHANGED reorderCall
  /\ UNCHANGED callbackVars
  /\ ev' = [op |-> "timerTick", refreshed |-> timer.timeLeft <= 0]
  /\ UNCHANGED << data, originalTasks, hasPendingReorder, error, loading, fetches,
                  reorderReqs, statusReqs, cardReqs, intervals >>
  /\ UNCHANGED hookVars

\* the setTimeout callback: setIsRefreshing(false); timeLeft = 5 * 60 (the
\* timeLeft of the effect that created it)
RefreshTimeoutFires(to) ==
  /\ to \in timeouts
  /\ to.remaining = 0
  /\ timeouts' = timeouts \ {to}
  /\ timerRefreshing' = FALSE
  /\ IF to.current
     THEN /\ timer' = [timer EXCEPT !.timeLeft = CountdownSeconds]
          /\ refreshesAtZero' = 0
     ELSE UNCHANGED << timer, refreshesAtZero >>
  /\ UNCHANGED << tprops, countdown >>
  /\ UNCHANGED apiVars
  /\ UNCHANGED accountVars
  /\ UNCHANGED reorderCall
  /\ UNCHANGED callbackVars
  /\ ev' = [op |-> "refreshTimeout"]
  /\ UNCHANGED << data, originalTasks, hasPendingReorder, error, loading, fetches,
                  reorderReqs, statusReqs, cardReqs, intervals >>
  /\ UNCHANGED hookVars

NextTimer ==
  \/ \E p \in TimerProps : TimerRender(p)
  \/ ClockAdvances
  \/ TimerTick
  \/ \E to \in timeouts : RefreshTimeoutFires(to)

SpecTimer == Init /\ [][NextTimer]_vars

\* ------------------------------------------------- /api/mmq-reorder
\* `${apiResponse.status}`
StatusText(status) ==
  CASE status = 200 -> "200" [] status = 400 -> "400" [] status = 404 -> "404"
    [] status = 500 -> "500"

\* res.status(status).json({ error, details }); a message is the sequence of
\* the parts its template joins
EndpointError(status, message, details) ==
  [status |-> status, error |-> message, details |-> details]
EndpointSuccess == [status |-> 200, error |-> << >>, details |-> NoDetails]

\* !value
Falsy(value) == value.kind \in {"undefined", "null"} \/ value = Str("")

\* the body of the validation loop: !task.task_id || task.position === undefined
EntryRejected(task) == Falsy(task.task_id) \/ task.position = Undefined

\* the entries the loop stops at: a rejected one (return 400) or a null one,
\* whose property read throws
StopsLoop(task) == task = JsNull \/ EntryRejected(task)

\* the handler up to the forward: the response it returns, or Forward
Forward == [status |-> 0, error |-> << >>, details |-> NoDetails]
validateReorder(body) ==
  IF body.kind # "array"
  THEN EndpointError(400, << "Request body should be an array of task objects" >>,
                     NoDetails)
  ELSE IF Len(body.items) = 0
  THEN EndpointError(400, << "No tasks provided for reordering" >>, NoDetails)
  ELSE IF \E i \in 1..Len(body.items) : StopsLoop(body.items[i])
  THEN LET first == CHOOSE i \in 1..Len(body.items) :
                      /\ StopsLoop(body.items[i])
                      /\ \A j \in 1..(i - 1) : ~StopsLoop(body.items[j])
       IN  IF body.items[first] = JsNull
           THEN EndpointError(500, << "Failed to reorder tasks" >>,
                              "Cannot read properties of null")
           ELSE EndpointError(400,
                  << "Each task must have task_id and position properties" >>,
                  NoDetails)
  ELSE Forward

\* the endpoint receives a PATCH with this body
EndpointReceives(body) ==
  /\ reorderCall.phase = "idle"
  /\ reorderCall' =
       IF validateReorder(body) = Forward
       THEN [phase |-> "forwarded", body |-> body]
       ELSE [phase |-> "answered", body |-> body, forwarded |-> FALSE,
             response |-> validateReorder(body)]
  /\ UNCHANGED apiVars
  /\ UNCHANGED accountVars
  /\ UNCHANGED timerVars
  /\ UNCHANGED callbackVars
  /\ ev' = [op |-> "endpointReceives", body |-> body]
  /\ UNCHANGED << data, originalTasks, hasPendingReorder, error, loading, fetches,
                  reorderReqs, statusReqs, cardReqs, intervals >>
  /\ UNCHANGED hookVars

\* the endpoint's answer to what the remote did
relayReorder(outcome) ==
  IF outcome.kind = "throws"
  THEN EndpointError(500, << "Failed to reorder tasks" >>, outcome.message)
  ELSE IF outcome.status < 200 \/ outcome.status > 299
  THEN EndpointError(outcome.status,
         << "External API returned status: ", StatusText(outcome.status) >>,
         outcome.text)
  ELSE EndpointSuccess

\* the awaited fetch(targetUrl, PATCH) settles
RemoteSettles(outcome) ==
  /\ reorderCall.phase = "forwarded"
  /\ reorderCall' = [phase |-> "answered", body |-> reorderCall.body,
                     forwarded |-> TRUE, response |-> relayReorder(outcome)]
  /\ UNCHANGED apiVars
  /\ UNCHANGED accountVars
  /\ UNCHANGED timerVars
  /\ UNCHANGED callbackVars
  /\ ev' = [op |-> "remoteSettles", outcome |-> outcome]
  /\ UNCHANGED << data, originalTasks, hasPendingReorder, error, loading, fetches,
                  reorderReqs, statusReqs, cardReqs, intervals >>
  /\ UNCHANGED hookVars

\* handleApplyReorder's reading of the endpoint's response: for !response.ok
\* the thrown message, errorData.error || 'Failed to reorder tasks', becomes the
\* warning
applyWarning(response) ==
  IF response.status >= 200 /\ response.status <= 299 THEN << >>
  ELSE IF response.error = << >> THEN << "Failed to reorder tasks" >>
  ELSE response.error

\* the response reaches handleApplyReorder
ClientReads ==
  /\ reorderCall.phase = "answered"
  /\ reorderCall' = NoCall
  /\ UNCHANGED apiVars
  /\ UNCHANGED accountVars
  /\ UNCHANGED timerVars
  /\ UNCHANGED callbackVars
  /\ ev' = [op |-> "clientReads", response |-> reorderCall.response,
            forwarded |-> reorderCall.forwarded,
            warning |-> applyWarning(reorderCall.response)]
  /\ UNCHANGED << data, originalTasks, hasPendingReorder, error, loading, fetches,
                  reorderReqs, statusReqs, cardReqs, intervals >>
  /\ UNCHANGED hookVars

NextEndpoint ==
  \/ \E body \in Bodies : EndpointReceives(body)
  \/ \E outcome \in RemoteOutcomes : RemoteSettles(outcome)
  \/ ClientReads

SpecEndpoint == Init /\ [][NextEndpoint]_vars

\* ------------------------------------------------------------- apiClient
\* makeRequest's deduplication test (deduplicate keeps its default, true)
deduplicated(method) == method # "POST" /\ method # "PATCH"

\* fetch(url, ...) of one loop iteration and the pendingRequests.set after it
SendFetch(c, method, url, attempt) ==
  /\ netFetches' = [netFetches EXCEPT ![<< c, attempt >>] = Pending]
  /\ pendingRequests' =
       IF deduplicated(method)
       THEN [pendingRequests EXCEPT ![generateRequestKey(method, url)] = << c, attempt >>]
       ELSE pendingRequests

\* apiClient(url, options) up to makeRequest's first await: the pending promise
\* of an identical request is returned, otherwise the first fetch is made
MakeRequest(c, method, url, retries) ==
  /\ apiCalls[c].state = "idle"
  /\ LET key == generateRequestKey(method, url)
         shared == deduplicated(method) /\ pendingRequests[key] # NoFetch
     IN  /\ apiCalls' = [apiCalls EXCEPT ![c] =
               [state |-> "awaiting", method |-> method, url |-> url,
                retries |-> retries, shared |-> shared,
                attempt |-> IF shared THEN 0 ELSE 1,
                promise |-> IF shared THEN pendingRequests[key] ELSE << c, 1 >>]]
         /\ IF shared
            THEN UNCHANGED << netFetches, pendingRequests >>
            ELSE SendFetch(c, method, url, 1)
  /\ ev' = [op |-> "makeRequest", caller |-> c]
  /\ UNCHANGED appVars

\* the remote answers a fetch, the transport fails, or the timeout aborts it
FetchSettles(id, outcome) ==
  /\ netFetches[id] = Pending
  /\ netFetches' = [netFetches EXCEPT ![id] = outcome]
  /\ ev' = [op |-> "fetchSettles", fetch |-> id]
  /\ UNCHANGED << apiCalls, pendingRequests >>
  /\ UNCHANGED appVars

\* apiClient's use of the Response makeRequest returned
ResultOfResponse(r) ==
  IF ResponseOk(r)
  THEN IF r.bodyUsed THEN APIResult(0, "body stream already read")
       ELSE APIResult(r.status, NoAPIError)
  ELSE IF r.bodyUsed \/ r.error = "" THEN APIResult(r.status, "HTTP")
       ELSE APIResult(r.status, r.error)

\* apiClient's catch of what makeRequest threw
ResultOfThrown(e) ==
  IF e.kind = "Error" /\ e.name = "AbortError" THEN APIResult(408, "Request timeout")
  ELSE IF e.kind = "Error" THEN APIResult(0, "error.message")
  ELSE APIResult(0, "Network error")

\* the call resolves: apiClient read the body of the Response it was given
Resolves(c, o, thrown) ==
  /\ apiCalls' = [apiCalls EXCEPT ![c] =
        [@ EXCEPT !.state = "done"] @@
        [result |-> IF thrown THEN ResultOfThrown(o) ELSE ResultOfResponse(o)]]
  /\ netFetches' = IF ~thrown
                   THEN [netFetches EXCEPT ![apiCalls[c].promise].bodyUsed = TRUE]
                   ELSE netFetches

\* the continuation of `await requestPromise` in makeRequest and, when
\* makeRequest settles, the rest of apiClient
AwaitResumes(c) ==
  /\ apiCalls[c].state = "awaiting"
  /\ netFetches[apiCalls[c].promise] # Pending
  /\ LET call == apiCalls[c]
         o == netFetches[call.promise]
         key == generateRequestKey(call.method, call.url)
         deleted == [pendingRequests EXCEPT ![key] = NoFetch]
     IN  IF call.shared
         THEN /\ Resolves(c, o, o.kind = "Error")
              /\ UNCHANGED pendingRequests
         ELSE IF o.kind = "Response" /\ ~(~ResponseOk(o) /\ isRetriableError(o))
         THEN /\ Resolves(c, o, FALSE)
              /\ pendingRequests' = deleted
         ELSE IF ~isRetriableError(o) \/ call.attempt = call.retries
         THEN /\ Resolves(c, o, TRUE)
              /\ pendingRequests' = deleted
         ELSE /\ apiCalls' = [apiCalls EXCEPT ![c].state = "backoff"]
              /\ pendingRequests' = IF o.kind = "Response" THEN deleted
                                    ELSE pendingRequests
              /\ UNCHANGED netFetches
  /\ ev' = [op |-> "awaitResumes", caller |-> c]
  /\ UNCHANGED appVars

\* exponentialBackoff's timer fires: the next loop iteration sends again
BackoffElapsed(c) ==
  /\ apiCalls[c].state = "backoff"
  /\ apiCalls' = [apiCalls EXCEPT ![c].state = "awaiting",
                                  ![c].attempt = @ + 1,
                                  ![c].promise = << c, apiCalls[c].attempt + 1 >>]
  /\ SendFetch(c, apiCalls[c].method, apiCalls[c].url, apiCalls[c].attempt + 1)
  /\ ev' = [op |-> "backoffElapsed", caller |-> c]
  /\ UNCHANGED appVars

\* the callers of apiClient and the remote
NextApi ==
  \/ \E c \in Callers, method \in Methods, url \in Urls, retries \in RetryOptions :
       MakeRequest(c, method, url, retries)
  \/ \E id \in FetchIds, outcome \in Outcomes : FetchSettles(id, outcome)
  \/ \E c \in Callers : AwaitResumes(c)
  \/ \E c \in Callers : BackoffElapsed(c)

SpecApi == Init /\ [][NextApi]_vars

\* ================================================================ claims
\* the task ids of a task list, in order
IdSeq(tasks) == [i \in 1..Len(tasks) |-> tasks[i].task_id]
\* the 1-based place of id in a sequence of distinct ids
PlaceOf(ids, id) == CHOOSE i \in 1..Len(ids) : ids[i] = id
\* s without its i-th element
RemoveAt(s, i) == SubSeq(s, 1, i - 1) \o SubSeq(s, i + 1, Len(s))
\* the Hold tasks in the order the list stores them
HoldInListOrder(d) == SelectSeq(d.tasks, IsHoldTask)
\* the case of C3: the task is active and on hold and the working count has
\* reached a cap that is not the unlimited sentinel
PlayBlocked(d, taskId) ==
  /\ TaskOf(d.tasks, taskId).active
  /\ isTaskOnHold(TaskOf(d.tasks, taskId))
  /\ d.cap # UnlimitedCap
  /\ countActiveWorkingTasks(d.tasks) >= d.cap
\* the schedules of handleApplyReorder that clearInterval has not removed
LiveIntervals == {iv \in BagToSet(intervals) : ~iv.cleared}

\* C1: when applyPendingReorder fails, the task list is the list of the last
\* successful load (the rollback target) and MutationPending is false, for
\* every interleaving, a load completing while the reorder is in flight included.
C1_RollbackToLastLoad ==
  ev.op = "applyFail" => (data.tasks = originalTasks /\ ~hasPendingReorder)

C3_BlockedPlaySendsNothing ==
  [][(/\ ev'.op \in {"statusUpdate", "playPause"}
      /\ ev'.action = "play"
      /\ PlayBlocked(data, ev'.task_id))
       => /\ statusReqs' = statusReqs
          /\ cardReqs' = cardReqs
          /\ data' = data
          /\ ev'.warned]_vars

\* C4: after one start of a poll with maxPolls = N the tick callback is
\* invoked at most N times for that run, however long a tick takes and
\* whether or not ticks fail.
C4_TicksWithinBudget == \A t \in TaskIds : ticksOfRun[t] <= maxPolls

C6_NoTickAfterTeardown == ev.op = "cardTick" => ~ev.torn

\* C7: at most one poll schedule is live per engine instance: two successful
\* reorders in a row never leave two schedules running.
C7_OneSchedule ==
  /\ Cardinality(LiveIntervals) <= 1
  /\ \A iv \in LiveIntervals : CopiesIn(iv, intervals) = 1

\* C8: after a load succeeds the held snapshot is the fetched response, the
\* rollback target is its task list, MutationPending is false and the error
\* is cleared, whatever the state was before.
C8_LoadSuccessAdoptsResponse ==
  ev.op = "loadOk" => /\ data = ev.result
                      /\ originalTasks = ev.result.tasks
                      /\ ~hasPendingReorder
                      /\ error = NoError

\* C8 witness: a load succeeded over a staged, unapplied reorder
C8_LoadOverStagedReorder ==
  ev.op = "loadOk" /\ ev.wasPending /\ data = ev.result

\* C9: a failed load leaves the held snapshot, the rollback target and
\* MutationPending as they were; only the error is set.
C9_LoadFailureKeepsState ==
  [][ev'.op = "loadFail" => /\ data' = data
                            /\ originalTasks' = originalTasks
                            /\ hasPendingReorder' = hasPendingReorder
                            /\ error' \in FetchErrors]_vars

\* C9 witness: a load failed while a snapshot with a staged reorder was held
C9_LoadFailedOverStagedReorder ==
  ev.op = "loadFail" /\ hasPendingReorder /\ data # NoData /\ error \in FetchErrors

\* C10: after an accepted reorderHold(from, to) the Hold tasks carry the
\* positions 1..N in the moved order (the task from index from is at index
\* to, the others keep their relative order), and a following successful
\* applyPendingReorder leaves that list as it is.
C10_MovedOrderContiguous ==
  /\ [][(ev'.op = "dragEnd" /\ ev'.accepted) =>
          LET before == IdSeq(holdTasksOf(data))
              after  == HoldInListOrder(data')
              from   == PlaceOf(before, ev'.activeId)
              to     == PlaceOf(before, ev'.overId)
          IN  /\ Len(after) = Len(before)
              /\ \A i \in 1..Len(after) : after[i].position = i
              /\ after[to].task_id = ev'.activeId
              /\ RemoveAt(IdSeq(after), to) = RemoveAt(before, from)]_vars
  /\ [][ev'.op = "applyOk" => data'.tasks = data.tasks]_vars

\* C10 witness: a reorder was applied successfully and the Hold tasks are
\* held in a moved order, renumbered 1..N
C10_AppliedMovedOrder ==
  /\ ev.op = "applyOk"
  /\ IdSeq(holdTasksOf(data)) # IdSeq(SortByPosition(SelectSeq(originalTasks, IsHoldTask)))
  /\ \A i \in 1..Len(HoldInListOrder(data)) : HoldInListOrder(data)[i].position = i

\* C11: an accepted reorderHold sets MutationPending and makes no remote call;
\* a reorder request is sent only by applyPendingReorder.
C11_DragStagesOnly ==
  /\ [][(ev'.op = "dragEnd" /\ ev'.accepted) =>
          /\ hasPendingReorder'
          /\ UNCHANGED << fetches, reorderReqs, statusReqs, cardReqs, intervals >>]_vars
  /\ [][(reorderReqs' \ reorderReqs # {}) => ev'.op = "applyReorder"]_vars

\* C11 witness: a drag was accepted and staged while nothing is awaiting a
\* response
C11_StagedNothingSent ==
  /\ ev.op = "dragEnd" /\ ev.accepted
  /\ hasPendingReorder
  /\ InFlight = 0

\* C12: reorderHold changes only the order and the position of Hold tasks:
\* the Active tasks keep every field and their relative order, no task is
\* added or dropped, and cap, activeTaskCount and the rollback target are
\* unchanged.
C12_DragFrame ==
  [][(ev'.op = "dragEnd" /\ ev'.accepted) =>
       /\ activeTasksOf(data') = activeTasksOf(data)
       /\ Len(data'.tasks) = Len(data.tasks)
       /\ \A i \in 1..Len(HoldInListOrder(data')) :
            \E j \in 1..Len(HoldInListOrder(data)) :
              HoldInListOrder(data')[i] =
                [HoldInListOrder(data)[j] EXCEPT
                   !.position = HoldInListOrder(data')[i].position]
       /\ data'.cap = data.cap
       /\ data'.active_tasks = data.active_tasks
       /\ originalTasks' = originalTasks]_vars

\* C12 witness: a drag was accepted in a list that holds two Active tasks
\* between its Hold tasks
C12_DragBesideActiveTasks ==
  /\ ev.op = "dragEnd" /\ ev.accepted
  /\ Len(activeTasksOf(data)) = 2
  /\ data.tasks # originalTasks

\* C13: reorderHold is a no-op (task list, MutationPending and rollback target
\* unchanged, nothing sent) when the dragged task or the drop target is not
\* in the Hold bucket, when there is no drop target, or when source and
\* target are the same: a drag end either leaves everything as it was, or its
\* two tasks are distinct tasks of the Hold bucket.
C13_RejectedDragIsNoOp ==
  [][ev'.op = "dragEnd" =>
       \/ /\ ~ev'.accepted
          /\ UNCHANGED << data, hasPendingReorder, originalTasks, fetches,
                          reorderReqs, statusReqs, cardReqs, intervals >>
       \/ /\ ev'.accepted
          /\ ev'.overId # NoTask
          /\ ev'.activeId # ev'.overId
          /\ ev'.activeId \in IdsOf(holdTasksOf(data))
          /\ ev'.overId \in IdsOf(holdTasksOf(data))]_vars

\* C13 witness: a drag was rejected in a queue whose Active bucket holds
\* tasks, while a staged reorder was pending
C13_DragRejected ==
  /\ ev.op = "dragEnd" /\ ~ev.accepted
  /\ Len(activeTasksOf(data)) > 0
  /\ hasPendingReorder

\* the entry of a reorder body that stands for a task
BodyEntry(t) ==
  [task_id |-> t.task_id, position |-> t.position, active |-> t.active,
   status |-> t.status]

\* C14: applyPendingReorder sends a request whose body lists exactly the Hold
\* tasks of the current list (each once, no Active task) in ascending
\* position order, each entry with the task's id, staged position, active and
\* status; for the staged Hold order C(1), A(2), B(3) the body is exactly
\* [{C,1},{A,2},{B,3}].
C14_PayloadIsStagedHoldOrder ==
  [][ev'.op = "applyReorder" =>
       \E r \in reorderReqs' :
         LET hold == HoldInListOrder(data)
         IN  /\ Len(r.body) = Len(hold)
             /\ {r.body[i] : i \in 1..Len(r.body)} =
                  {BodyEntry(hold[i]) : i \in 1..Len(hold)}
             /\ \A i, j \in 1..Len(r.body) :
                  i < j => r.body[i].position < r.body[j].position
             /\ \A i \in 1..Len(r.body) : ~r.body[i].active
             /\ (IdSeq(holdTasksOf(data)) = << "C", "A", "B" >> =>
                   r.body = << BodyEntry(Task("C", FALSE, "Queued", 1)),
                               BodyEntry(Task("A", FALSE, "Queued", 2)),
                               BodyEntry(Task("B", FALSE, "Queued", 3)) >>)]_vars

\* C14 witness: from the Hold order B, C, A the task B was dragged to the end
\* and the reorder was submitted beside two Active tasks
C14_SubmittedAfterDragToEnd ==
  /\ ev.op = "applyReorder"
  /\ IdSeq(holdTasksOf(data)) = << "C", "A", "B" >>
  /\ Len(activeTasksOf(data)) = 2
  /\ \E r \in reorderReqs : IdSeq(r.body) = << "C", "A", "B" >>

\* C15: when the remote call of applyPendingReorder succeeds, MutationPending
\* becomes false, a success notification is surfaced, the task list is left
\* as it is (the staged order), and a bounded poll of loads begins: a fresh
\* schedule is armed, and a schedule none of whose ticks is awaiting has
\* either budget left or has been cleared.
C15_ApplySuccessStartsPoll ==
  /\ [][ev'.op = "applyOk" =>
          /\ ~hasPendingReorder'
          /\ ev'.success = "Tasks reordered successfully"
          /\ data' = data
          /\ intervals' = intervals (+) SetToBag({NewInterval})]_vars
  /\ [](\A iv \in LiveIntervals : iv.ticks = 0 => iv.pollCount < maxPolls)

\* C15 witness: the reorder succeeded, the staged order is held and the fresh
\* schedule is armed
C15_PollArmedAfterApply ==
  /\ ev.op = "applyOk"
  /\ ~hasPendingReorder
  /\ IdSeq(holdTasksOf(data)) # IdSeq(SortByPosition(SelectSeq(originalTasks, IsHoldTask)))
  /\ BagIn(NewInterval, intervals)

\* C16: cancelPendingReorder sets the task list to the list of the last
\* successful load (the rollback target, which only a successful load
\* writes), sets MutationPending to false, leaves cap and activeTaskCount
\* unchanged and sends no network request.
C16_CancelRestoresLastLoad ==
  /\ [][ev'.op = "cancelReorder" =>
          /\ data'.tasks = originalTasks
          /\ ~hasPendingReorder'
          /\ data'.cap = data.cap
          /\ data'.active_tasks = data.active_tasks
          /\ UNCHANGED << originalTasks, fetches, reorderReqs, statusReqs,
                          cardReqs, intervals >>]_vars
  /\ [][originalTasks' # originalTasks =>
          (ev'.op = "loadOk" /\ originalTasks' = ev'.result.tasks)]_vars

\* C16 witness: a staged reorder was cancelled with nothing awaiting a
\* response, and the list is the loaded one again
C16_CancelledStagedReorder ==
  /\ ev.op = "cancelReorder"
  /\ data.tasks = originalTasks
  /\ data \in Snapshots
  /\ InFlight = 0

\* C17: when the remote play/pause call fails, the task list,
\* activeTaskCount, MutationPending and the rollback target are unchanged, no
\* poll is started, and a warning is surfaced to the user.
C17_FailedPlayPauseWarns ==
  [][ev'.op \in {"statusFail", "cardFail"} =>
       /\ UNCHANGED << data, originalTasks, hasPendingReorder, intervals, hook,
                       fetches >>
       /\ ev'.warning # NoWarning]_vars

TransientFailure(o) ==
  \/ o.kind = "Error"
  \/ o.kind = "Response" /\ (o.status >= 500 \/ o.status = 429)

\* C21: a GET that fails with a transient transport error (timeout, network
\* failure, 5xx, 429) while attempts are left is retried after a backoff; it is
\* never fetched more often than its attempt count; a GET answered with any
\* other 4xx is not retried
C21_TransientReadRetried ==
  [][\A c \in Callers :
       (/\ ev'.op = "awaitResumes"
        /\ ev'.caller = c
        /\ apiCalls[c].method = "GET"
        /\ ~apiCalls[c].shared)
       => LET o == netFetches[apiCalls[c].promise]
          IN  /\ (TransientFailure(o) /\ apiCalls[c].attempt < apiCalls[c].retries)
                   => apiCalls'[c].state = "backoff"
              /\ apiCalls[c].attempt <= apiCalls[c].retries
              /\ (o.kind = "Response" /\ o.status = 404)
                   => apiCalls'[c].state = "done"]_vars

\* C22: when two loads are in flight together and both succeed, the snapshot
\* held after the second resolution is the response that resolved last,
\* whichever load was issued first (ev.overtook: the handler that ran just
\* before was the other load's successful resolution, with another response)
C22_LastResolvedWins ==
  [][(ev'.op = "loadOk" /\ ev'.overtook)
       => /\ data' = ev'.result
          /\ data' # data
          /\ originalTasks' = ev'.result.tasks]_vars

C22_LaterResponseHeld ==
  /\ ev.op = "loadOk"
  /\ ev.overtook
  /\ data = ev.result
  /\ fetches = 0

\* C23: a tick whose onPoll throws or rejects is reported through onError (when
\* the option is given) and does not stop the poll: while fewer than maxPolls
\* ticks are counted the timer stays armed and the count is kept
C23_RejectedTickKeepsPolling ==
  [][ev'.op = "onPollRejects"
       => /\ onErrorGiven(ev'.task_id)
               => reported'[ev'.task_id] = reported[ev'.task_id] + 1
          /\ ev'.counted < maxPolls
               => /\ hook'[ev'.task_id] = hook[ev'.task_id]
                  /\ completions'[ev'.task_id] = completions[ev'.task_id]]_vars

\* the last tick of a run fires after an earlier tick of the poller was reported
C23_TickAfterReportedError ==
  /\ ev.op = "tick"
  /\ ev.task_id = "A"
  /\ reported["A"] >= 1
  /\ ticksOfRun["A"] = maxPolls
  /\ hook["A"].pollCountRef = maxPolls

\* C24: once maxPolls ticks of a run have fired and every onPoll call returns,
\* the poll stops by itself: the timer is cleared, which leaves no timer to fire
\* a later tick, and onComplete (when given) has been invoked exactly once for
\* the run, unless startPolling began a new run first; it is never invoked more
\* than once for a run
C24_PollStopsAndCompletesOnce ==
  \A t \in Pollers :
    /\ [](completions[t] <= 1)
    /\ [](stopped[t] => hook[t].liveTimers = 0)
    /\ (ticksOfRun[t] >= maxPolls)
         ~> \/ ticksOfRun[t] < maxPolls
            \/ /\ stopped[t]
               /\ hook[t].liveTimers = 0
               /\ hook[t].intervalRef = NoTimer
               /\ onCompleteGiven(t) => completions[t] = 1

C24_StoppedAndCompleted ==
  /\ ev.op \in {"onPollResolves", "onPollRejects"}
  /\ ev.task_id = "A"
  /\ ev.counted >= maxPolls
  /\ ticksOfRun["A"] >= maxPolls
  /\ hook["A"].liveTimers = 0
  /\ completions["A"] = 1

\* C25: each time the countdown reaches zero the timer triggers one refresh:
\* between two starts of the 5-minute countdown onRefresh is called at most
\* once, and the refreshing state then lasts until the countdown restarts
C25_OneRefreshPerCountdown ==
  /\ refreshesAtZero <= 1
  /\ (timer.live /\ refreshesAtZero = 1) => timerRefreshing

\* C26: while cap is the unlimited sentinel 999 or the active count has reached
\* cap, no countdown runs: the countdown value is null, no interval is armed
\* and no timer tick triggers a refresh
C26_NoCountdownWithoutSlots ==
  [][(tprops' # NoProps /\ noSlots(tprops'))
       => /\ countdown' = NoCountdown
          /\ ~timer'.live
          /\ ~(ev'.op = "timerTick" /\ ev'.refreshed)]_vars

\* a second passes under the unlimited cap after a countdown was refreshing
C26_ClockRunsWithoutCountdown ==
  /\ ev.op = "clockAdvances"
  /\ tprops # NoProps
  /\ tprops.cap = UnlimitedCap
  /\ countdown = NoCountdown
  /\ timeouts # {}
  /\ timerRefreshing

\* the bodies C27 lets through: a non-empty array in which every entry is an
\* object with a task_id and a position that is not undefined
WellFormedBody(body) ==
  /\ body.kind = "array"
  /\ Len(body.items) > 0
  /\ \A i \in 1..Len(body.items) :
       /\ body.items[i].kind = "object"
       /\ body.items[i].task_id \notin {Undefined, Str("")}
       /\ body.items[i].position # Undefined

\* C27: the reorder endpoint forwards a request to the remote only if its body
\* is a non-empty array whose entries all have a task_id and a defined position
\* (0 included); any other body is answered with a 400 and no remote call
C27_EndpointValidatesBody ==
  [][ev'.op = "endpointReceives"
       => IF WellFormedBody(ev'.body)
          THEN reorderCall'.phase = "forwarded"
          ELSE /\ reorderCall'.phase = "answered"
               /\ ~reorderCall'.forwarded
               /\ reorderCall'.response.status = 400]_vars

\* the message is made of a part that is this text
ContainsText(message, text) == \E i \in 1..Len(message) : message[i] = text

\* C28: when the remote reorder call returns HTTP 500, the warning that
\* handleApplyReorder surfaces contains the detail text of the remote response
C28_WarningCarriesRemoteDetail ==
  [][(/\ ev'.op = "clientReads"
      /\ ev.op = "remoteSettles"
      /\ ev.outcome.kind = "response"
      /\ ev.outcome.status = 500)
       => ContainsText(ev'.warning, ev.outcome.text)]_vars

\* C29: the admission check lets a held task be played iff the number of
\* working tasks is strictly below cap, for every finite cap >= 0 (0 included),
\* and always when cap is the sentinel 999
C29_AdmitsIffBelowCap ==
  [][(ev'.op = "playPause" /\ ev'.action = "play")
       => (~ev'.warned <=>
             \/ data.cap = UnlimitedCap
             \/ countActiveWorkingTasks(data.tasks) < data.cap)]_vars

\* the play/pause requests the step sent
SentPlayPause == (statusReqs' \ statusReqs) \cup (cardReqs' \ cardReqs)

\* the bucket the task is in: the active list or the hold list
BucketOf(d, taskId) ==
  IF TaskOf(d.tasks, taskId).active THEN activeTasksOf(d) ELSE holdTasksOf(d)

\* C30: every play/pause request carries the id of the task it was asked
\* for, a position that is the task's 1-based rank in its bucket and so never
\* 0, and a view_id whose account is the one whose queue is displayed or the
\* one the component is set to load (the override account while an override
\* is in effect)
C30_PlayPauseRequestIdentifiesAccount ==
  [][\A r \in SentPlayPause :
        /\ r.task_id = ev'.task_id
        /\ r.position >= 1
        /\ r.position = findIndex(BucketOf(data, r.task_id), r.task_id) + 1
        /\ \/ Num(r.view_id.number) = shownAccount
           \/ r.view_id.number = AccountToFetch]_vars

\* the rows of the tasks the Hold bucket shows, in the bucket's order
HoldRows(rows, hold) ==
  [i \in 1..Len(hold) |-> rows[findIndex(rows, hold[i].task_id) + 1]]

\* C31: the Hold bucket is ascending by position, tasks with equal position
\* keep the order the endpoint read them in, and a task that has no position
\* (no queue_num) comes after every task that has one
C31_HoldBucketOrder ==
  ev.op = "queueData" =>
    LET hold == holdTasksOf(data)
        shown == HoldRows(ev.rows, hold)
    IN  \A i \in 1..Len(hold), j \in 1..Len(hold) :
          i < j =>
            /\ hold[i].position <= hold[j].position
            /\ hold[i].position = hold[j].position =>
                 findIndex(ev.rows, hold[i].task_id) < findIndex(ev.rows, hold[j].task_id)
            /\ ~(shown[i].queue_num = NoPos /\ shown[j].queue_num # NoPos)

\* C32: the full-page error state is shown only while no snapshot is held: a
\* load that fails while a snapshot is held leaves the queue displayed
C32_ErrorPageOnlyWithoutSnapshot ==
  Screen = "error" => data = NoData

\* C33: a staged reorder is submitted at most once: handleApplyReorder sends
\* no reorder request while an earlier reorder request is awaiting its response
C33_NoSecondReorderInFlight ==
  [][ev'.op = "applyReorder" => reorderReqs = {}]_vars

\* the reorder request whose response the step handled
ResolvedReorder == reorderReqs \ reorderReqs'

\* the displayed Hold order is staged and no request in flight submitted it
StagedUnsubmitted ==
  /\ hasPendingReorder
  /\ \A r \in reorderReqs : r.body # reorderPayload(data)

\* C34: when a new order was staged while a reorder request was in flight,
\* and was itself not submitted, MutationPending is still true after that
\* request resolves, with success or with failure, so the newer order can
\* still be applied or cancelled
C34_NewerStagedOrderStaysPending ==
  [][(ev'.op \in {"applyOk", "applyFail"} /\ ResolvedReorder # {} /\ StagedUnsubmitted)
       => hasPendingReorder']_vars

\* C35: once the held snapshot belongs to the selected account, the last
\* load to finish does not replace it with the queue of another account: when
\* every load has finished after a switch, the snapshot is the selected
\* account's
C35_SnapshotOfSelectedAccount ==
  [][(/\ ev'.op = "loadOk"
      /\ shownAccount = Num(AccountToFetch)
      /\ InFlight' = 0)
       => shownAccount' = Num(AccountToFetch)]_vars

\* the task list holds each id once and its two buckets split it
WellPartitioned(d) ==
  /\ Cardinality(IdsOf(d.tasks)) = Len(d.tasks)
  /\ IdsOf(activeTasksOf(d)) \cap IdsOf(holdTasksOf(d)) = {}
  /\ IdsOf(activeTasksOf(d)) \cup IdsOf(holdTasksOf(d)) = IdsOf(d.tasks)
  /\ Len(activeTasksOf(d)) + Len(holdTasksOf(d)) = Len(d.tasks)

\* the steps of reorderHold, cancelPendingReorder and applyPendingReorder
ReorderStep ==
  \/ ev'.op = "dragEnd" /\ ev'.accepted
  \/ ev'.op \in {"cancelReorder", "applyOk", "applyFail"}

\* C36: reorderHold, cancelPendingReorder and applyPendingReorder (success or
\* failure) never add, drop or duplicate a task: after each of them the task
\* list has the ids of the last loaded snapshot, each once, and every task is
\* in exactly one of the Active and Hold buckets
C36_ReorderKeepsTaskSet ==
  [][ReorderStep =>
       /\ IdsOf(data'.tasks) = IdsOf(originalTasks')
       /\ WellPartitioned(data')]_vars

\* C37: cancelPendingReorder invoked right after an accepted reorderHold that
\* staged the first change restores exactly the task list that was displayed
\* immediately before that reorderHold
C37_CancelUndoesTheDrag ==
  [][(/\ ev.op = "dragEnd" /\ ev.accepted /\ ~ev.wasPending
      /\ ev'.op = "cancelReorder")
       => data'.tasks = ev.before]_vars

\* C38: a play/pause request the card sends right after its previous request
\* on the same task succeeded, no load having completed in between, carries
\* the opposite action
C38_ConsecutiveActionsAlternate ==
  [][(/\ ev.op = "cardOk"
      /\ ev'.op = "playPause" /\ ~ev'.warned
      /\ ev'.task_id = ev.task_id)
       => ev'.action # ev.action]_vars

\* caller d was handed the pending fetch promise of caller c's identical GET
SharesFetchOf(d, c) ==
  /\ c # d
  /\ apiCalls[c].state # "idle" /\ apiCalls[d].state # "idle"
  /\ ~apiCalls[c].shared /\ apiCalls[d].shared
  /\ apiCalls[d].promise = apiCalls[c].promise

\* the deduplicated caller made no network fetch of its own
OneFetchForBoth(d) == \A n \in 1..DefaultRetries : netFetches[<< d, n >>] = Unsent

\* both calls resolved to the success the one fetch was answered with
BothSucceed(d, c) ==
  (/\ apiCalls[c].state = "done" /\ apiCalls[d].state = "done"
   /\ netFetches[apiCalls[c].promise].kind = "Response"
   /\ ResponseOk(netFetches[apiCalls[c].promise]))
    => /\ apiCalls[c].result = APIResult(netFetches[apiCalls[c].promise].status, NoAPIError)
       /\ apiCalls[d].result = apiCalls[c].result

\* once the request has settled its entry is gone from the pending map
EntryRemoved(c) ==
  apiCalls[c].state = "done"
    => pendingRequests[generateRequestKey(apiCalls[c].method, apiCalls[c].url)]
         \notin {<< c, n >> : n \in 1..DefaultRetries}

\* C39: when two identical GET requests are issued concurrently, one network
\* fetch is made, both callers receive the same successful data, and the
\* shared pending entry is removed once the request settles
C39_DedupSharesSuccess ==
  \A c \in Callers, d \in Callers :
    SharesFetchOf(d, c) => /\ OneFetchForBoth(d)
                           /\ BothSucceed(d, c)
                           /\ EntryRemoved(c)

\* the outcome of the fetch a resolved call last awaited
LastOutcome(c) == netFetches[apiCalls[c].promise]

\* C40: the API client resolves every call whose last fetch was answered with
\* a non-2xx response, a 5xx or 429 on the last attempt included, to a result
\* whose status is the HTTP status of that response and whose error is the
\* error message of the body when the body has one
C40_HttpErrorSurfaced ==
  \A c \in Callers :
    (/\ apiCalls[c].state = "done"
     /\ LastOutcome(c).kind = "Response"
     /\ ~ResponseOk(LastOutcome(c)))
      => /\ apiCalls[c].result.status = LastOutcome(c).status
         /\ LastOutcome(c).error # "" => apiCalls[c].result.error = LastOutcome(c).error

====
